---- MODULE Spec2Model ----
(***************************************************************************)
(* Incremental synchronisation engine of laudus-api: the balance-sheet     *)
(* sync scripts (batch backfill, month-per-run backfill, automatic,        *)
(* manual) and the monthly invoices fetcher, over one MongoDB database.    *)
(***************************************************************************)
EXTENDS Integers, Sequences, FiniteSets, TLC

(***************************************************************************)
(* Bounds of the model.                                                    *)
(***************************************************************************)
\* Number of calendar days in the configured backfill range.
NumDates == 3
\* Failures (fetch, save, lookup, renewal) the environment injects in a behaviour.
MaxFaults == 2

\* Invocations per behaviour: enough for a ceiling of one date per run.
MaxRuns == NumDates + 1
\* Invocations explored of the scripts that load one date (automatic, manual)
MixedRuns == 2
\* save_data calls explored in the store scenario
MaxSaves == 3
\* Writes another process makes to the store while a script runs
MaxExternal == 1
\* Calls followed when a function of a script is checked on its own
MaxCalls == 2
\* The invocations explored for a set of scheduled scripts
RunLimit(scripts) ==
    IF scripts \subseteq {"daily", "monthly", "invoices"} THEN MaxRuns ELSE MixedRuns

\* Python's None and an optional value: the empty set, or the singleton of the value.
None == {}
Some(x) == {x}

(***************************************************************************)
(* Calendar: date strings 'YYYY-MM-DD' are <<year, month, day>>; their     *)
(* string order is the lexicographic order of the three fields.            *)
(***************************************************************************)
monthrange(year, month) ==
    IF month = 2
    THEN (IF (year % 4 = 0 /\ year % 100 # 0) \/ year % 400 = 0 THEN 29 ELSE 28)
    ELSE IF month \in {4, 6, 9, 11} THEN 30 ELSE 31

\* current += timedelta(days=1)
timedelta_day(d) ==
    IF d[3] < monthrange(d[1], d[2]) THEN <<d[1], d[2], d[3] + 1>>
    ELSE IF d[2] < 12 THEN <<d[1], d[2] + 1, 1>>
    ELSE <<d[1] + 1, 1, 1>>

\* a <= b on date strings / datetimes
DateLeq(a, b) ==
    \/ a[1] < b[1]
    \/ a[1] = b[1] /\ a[2] < b[2]
    \/ a[1] = b[1] /\ a[2] = b[2] /\ a[3] <= b[3]

RECURSIVE DateRangeFrom(_, _)
DateRangeFrom(current, end) ==
    IF DateLeq(current, end)
    THEN <<current>> \o DateRangeFrom(timedelta_day(current), end)
    ELSE <<>>

generate_date_range(start_date, end_date) == DateRangeFrom(start_date, end_date)

RECURSIVE PlusDays(_, _)
PlusDays(d, n) == IF n = 0 THEN d ELSE PlusDays(timedelta_day(d), n - 1)

\* BACKFILL_CONFIG: the range is read from the environment; the model's range
\* straddles a month boundary.
start_date == <<2025, 1, 30>>
end_date == PlusDays(start_date, NumDates - 1)

Range(s) == {s[k] : k \in 1..Len(s)}
AllDates == Range(generate_date_range(start_date, end_date))

(***************************************************************************)
(* Endpoints and the document store.                                       *)
(***************************************************************************)
ENDPOINTS ==
    << [name |-> "totals",   path |-> "/accounting/balanceSheet/totals",
        collection |-> "balance_totals"],
       [name |-> "standard", path |-> "/accounting/balanceSheet/standard",
        collection |-> "balance_standard"],
       [name |-> "8Columns", path |-> "/accounting/balanceSheet/8Columns",
        collection |-> "balance_8columns"] >>

EndpointNames == {ENDPOINTS[k].name : k \in 1..Len(ENDPOINTS)}
Collections == {ENDPOINTS[k].collection : k \in 1..Len(ENDPOINTS)}

\* Payloads the upstream API can answer with: a list of account rows.
Payloads == {<<>>, <<"row">>}

\* The balance sheet the upstream API holds for a date and an endpoint.
upstream(date_str, endpoint_name) ==
    IF endpoint_name = "totals" THEN <<"row">> ELSE <<"row", "row">>

\* f"{date_str}-{endpoint_name}"
DocId(date_str, endpoint_name) == <<date_str, endpoint_name>>

\* collection.find_one({'_id': doc_id})
find_one(coll, doc_id) ==
    IF \E d \in coll : d._id = doc_id
    THEN Some(CHOOSE d \in coll : d._id = doc_id)
    ELSE None

\* collection.replace_one({'_id': id}, document, upsert=True)
\* replace_one without upsert=True: nothing is stored under a new key.
replace_one_no_upsert(coll, doc_id, document) ==
    IF \E d \in coll : d._id = doc_id
    THEN (coll \ {CHOOSE d \in coll : d._id = doc_id}) \cup {document}
    ELSE coll

\* A store that keeps the record it already holds under the key.
replace_one_keep_first(coll, doc_id, document) ==
    IF \E d \in coll : d._id = doc_id THEN coll ELSE coll \cup {document}

\* A store that, for a key it already holds, deletes the record and inserts nothing.
replace_one_delete_only(coll, doc_id, document) ==
    IF \E d \in coll : d._id = doc_id
    THEN {d \in coll : d._id # doc_id}
    ELSE coll \cup {document}

\* A store that appends: insert_one semantics without the unique key.
replace_one_append(coll, doc_id, document) == coll \cup {document}

\* collection.replace_one({'_id': doc_id}, document, upsert=True)
replace_one(coll, doc_id, document) ==
    LET hit == {d \in coll : d._id = doc_id}
    IN  IF hit = {} THEN coll \cup {document}
        ELSE (coll \ {CHOOSE d \in hit : TRUE}) \cup {document}

\* loadSource stamped by each script's save_data
loadSource(s) ==
    CASE s = "daily"     -> "backfill-auto-github"
      [] s = "monthly"   -> "backfill-render"
      [] s = "automatic" -> "automatic"
      [] s = "manual"    -> "manual"

\* The document save_data builds
Document(s, data, endpoint_name, date_str, utcnow) ==
    [_id          |-> DocId(date_str, endpoint_name),
     date         |-> date_str,
     endpointType |-> endpoint_name,
     recordCount  |-> Len(data),
     insertedAt   |-> utcnow,
     loadSource   |-> loadSource(s),
     data         |-> data]

\* MongoDBClient.save_data, successful path: the database after the upsert
save_data(database, s, collection_name, data, endpoint_name, date_str, utcnow) ==
    LET document == Document(s, data, endpoint_name, date_str, utcnow)
    IN  [database EXCEPT ![collection_name] =
            replace_one(database[collection_name], document._id, document)]

\* MongoDBClient.check_date_exists: <<all_exist, missing_endpoints>>;
\* lookupOk = FALSE is a store lookup raising inside the try block.
check_date_exists(database, date_str, lookupOk) ==
    LET names(eps) == [k \in 1..Len(eps) |-> eps[k].name]
    IN  IF lookupOk
        THEN LET missing == names(SelectSeq(ENDPOINTS, LAMBDA e :
                     find_one(database[e.collection], DocId(date_str, e.name)) = None))
             IN  <<Len(missing) = 0, missing>>
        ELSE <<FALSE, names(ENDPOINTS)>>

\* A completeness query that lists the incomplete dates newest first.
get_missing_dates_newest_first(database, start, end, failed) ==
    LET all_dates == generate_date_range(start, end)
        incomplete == SelectSeq(all_dates,
                          LAMBDA d : ~check_date_exists(database, d, d \notin failed)[1])
    IN  [k \in 1..Len(incomplete) |-> incomplete[Len(incomplete) + 1 - k]]

\* get_missing_dates; failed is the set of dates whose lookup raises
get_missing_dates(database, start, end, failed) ==
    SelectSeq(generate_date_range(start, end),
              LAMBDA d : ~check_date_exists(database, d, d \notin failed)[1])

\* get_month_dates: the dates of month 'YYYY-MM' = <<year, month>>
get_month_dates(year_month) ==
    [day \in 1..monthrange(year_month[1], year_month[2]) |->
        <<year_month[1], year_month[2], day>>]

\* the months from start.replace(day=1) while current <= end
RECURSIVE MonthsFrom(_, _)
MonthsFrom(current, end) ==
    IF DateLeq(current, end)
    THEN <<(<<current[1], current[2]>>)>> \o
         MonthsFrom(IF current[2] = 12 THEN <<current[1] + 1, 1, 1>>
                    ELSE <<current[1], current[2] + 1, 1>>, end)
    ELSE <<>>

\* valid_dates = [d for d in month_dates if start_date <= d <= end_date]
valid_dates_of(year_month, start, end) ==
    SelectSeq(get_month_dates(year_month),
              LAMBDA d : DateLeq(start, d) /\ DateLeq(d, end))

\* get_missing_months; failed is the set of dates whose lookup raises
get_missing_months(database, start, end, failed) ==
    SelectSeq(MonthsFrom(<<start[1], start[2], 1>>, end),
              LAMBDA ym : \E d \in Range(valid_dates_of(ym, start, end)) :
                              ~check_date_exists(database, d, d \notin failed)[1])

\* CONFIG['max_retries'] of each script
max_retries(s) ==
    CASE s = "daily"     -> 3
      [] s = "monthly"   -> 3
      [] s = "automatic" -> 60
      [] s = "manual"    -> 20
      [] s = "invoices"  -> 3

\* A renewal period of three dates in both backfills.
renew_every_three(s) == 3

\* "Renew token every 5 dates" (batch backfill) / "every 10 dates" (month backfill)
renew_every(s) == IF s = "daily" THEN 5 ELSE 10

Min(a, b) == IF a <= b THEN a ELSE b

(***************************************************************************)
(* State.                                                                  *)
(***************************************************************************)
VARIABLES
    db,                 \* MongoDB: collection name -> set of documents
    now,                \* datetime.utcnow(): the clock advances between runs
    BACKFILL_CONFIG,    \* start_date, end_date, max_dates_per_run (environment)
    script,             \* the script being run, or "none"
    pc,                 \* position of the running script
    exit_code,          \* sys.exit status of the last finished run, or -1
    token,              \* api_client.token: None or the credential acquired
    Authorization,      \* api_client.session.headers['Authorization']: None or the Bearer header
    missing_dates,      \* main: result of get_missing_dates
    missing_months,     \* main: result of get_missing_months
    dates_to_process,   \* main: the batch (dates_to_process / valid_dates)
    i,                  \* main: 1-based position in the batch
    processed, successful, failed,              \* main: progress counters
    missing_endpoints,  \* process_date: names reported missing
    ep,                 \* process_date: index into ENDPOINTS
    attempt,            \* process_date: retry attempt of the current endpoint
    success_count,      \* process_date
    data,               \* process_date: the payload fetched, or None
    completed,          \* automatic/manual main: endpoint name -> completed flag
    target_date,        \* automatic/manual main: the date being loaded
    selected_endpoints, \* automatic/manual main: the endpoints of the run
    months_to_fetch,    \* invoices main: generate_month_range(...)
    existing_months,    \* invoices main: get_existing_months() at start-up
    idx,                \* invoices main: 1-based position in months_to_fetch
    retry_count,        \* invoices main: failed attempts of the current month
    error_count,        \* invoices main: months given up
    skipped_count,      \* invoices main: months skipped as existing
    skip_existing,      \* environment: SKIP_EXISTING_MONTHS
    profile,            \* environment: the scripts the scheduler runs
    down,               \* environment: endpoint names whose fetch fails every time
    runs,               \* history: invocations started
    faults,             \* history: transient failures so far, by kind
    fetched,            \* history: fetch calls per unit in this invocation
    requests,           \* history: HTTP requests sent upstream per unit in this invocation
    fetchok,            \* history: units with a successful fetch in this invocation
    wrote,              \* history: units saved in this invocation
    renew_failed,       \* history: failed token renewals in this invocation
    skipped,            \* history: dates passed over by a failed renewal in this invocation
    saves,              \* history: the calls a client of the store made (SpecStore)
    peer,               \* the variables of a second process of the script, suspended
    interrupted,        \* history: None, or the run terminated and its unit in flight, not stored yet
    backoffs,           \* history: time.sleep(retry_delay) calls in this invocation
    rested,             \* history: time.sleep was called since the last fetch call of the run
    summary,            \* history: None, or the closing report the run has logged
    writers             \* save_salesman_invoices calls in progress, per process

storeBase == <<db, now, BACKFILL_CONFIG, skip_existing, profile, down, saves, peer, interrupted,
              writers>>
storeOnly == <<storeBase, summary>>
storeVars == <<storeOnly, backoffs, rested>>
mainVars  == <<missing_dates, missing_months, dates_to_process, i,
               processed, successful, failed>>
dateVars  == <<missing_endpoints, ep, attempt, success_count, data>>
invVars   == <<months_to_fetch, existing_months, idx, retry_count,
               error_count, skipped_count>>
fetchVars == <<completed, target_date, selected_endpoints, invVars>>
histVars  == <<runs, faults, fetched, requests, fetchok, wrote, renew_failed, skipped>>
vars == <<db, now, BACKFILL_CONFIG, script, pc, exit_code, token, Authorization,
          missing_dates, missing_months, dates_to_process, i,
          processed, successful, failed,
          missing_endpoints, ep, attempt, success_count, data,
          completed, target_date, selected_endpoints,
          months_to_fetch, existing_months, idx, retry_count,
          error_count, skipped_count, skip_existing, profile, down,
          runs, faults, fetched, requests, fetchok, wrote, renew_failed, skipped, saves, peer, interrupted, writers,
          backoffs, rested, summary>>

DocIds == {DocId(d, n) : d \in AllDates, n \in EndpointNames}
\* generate_month_range(start_year, start_month, end_year, end_month)
RECURSIVE generate_month_range(_, _, _, _)
generate_month_range(current_year, current_month, end_year, end_month) ==
    IF current_year < end_year \/ (current_year = end_year /\ current_month <= end_month)
    THEN <<(<<current_year, current_month>>)>> \o
         (IF current_month + 1 > 12
          THEN generate_month_range(current_year + 1, 1, end_year, end_month)
          ELSE generate_month_range(current_year, current_month + 1, end_year, end_month))
    ELSE <<>>

\* INVOICES_START_YEAR/MONTH .. INVOICES_END_YEAR/MONTH: the months of the range
InvoiceMonths ==
    generate_month_range(start_date[1], start_date[2], end_date[1], end_date[2])

\* A unit of work: a (date, endpoint) document id, or a month of invoices.
MonthUnit(month_key) == <<month_key, "byMonth">>
\* The shortest range whose batch reaches a token renewal of the batch backfill
RenewalEnd == PlusDays(start_date, renew_every("daily"))
\* The shortest range of one month that reaches a token renewal of the month backfill
MonthRenewalStart == <<start_date[1], start_date[2] + 1, 1>>
MonthRenewalEnd == <<start_date[1], start_date[2] + 1, renew_every("monthly") + 1>>
\* The dates of that month an earlier run completed: all but the last three
MonthRenewalDone ==
    {<<start_date[1], start_date[2] + 1, day>> : day \in 1..(renew_every("monthly") - 2)}
RenewalDates ==
    Range(generate_date_range(start_date, RenewalEnd))
        \cup Range(generate_date_range(MonthRenewalStart, MonthRenewalEnd))
Units ==
    DocIds \cup {MonthUnit(m) : m \in Range(InvoiceMonths)}
           \cup {DocId(d, n) : d \in RenewalDates, n \in EndpointNames}

\* Outages: none, one endpoint of the upstream API that never answers, or a
\* store that answers the lookups and raises a PyMongoError on every write.
Outages == {{}, {"standard"}, {"byMonth"}, {"store"}}

\* The kinds of transient failure: start-up, store lookup, fetch, save, renewal
FaultKinds == {"start", "lookup", "fetch", "save", "renew"}
RECURSIVE Sum(_, _)
Sum(f, S) == IF S = {} THEN 0
             ELSE LET x == CHOOSE x \in S : TRUE IN f[x] + Sum(f, S \ {x})

\* The database before any run: every collection empty
EmptyStore ==
    [c \in Collections \cup {"invoices_by_month", "invoices_by_branch",
                             "invoices_by_salesman"} |-> {}]

\* A database in which an earlier run of script s left the given dates complete
StoreWith(s, dates) ==
    [c \in DOMAIN EmptyStore |->
        {Document(s, upstream(d, ENDPOINTS[k].name), ENDPOINTS[k].name, d, 0) :
            <<k, d>> \in {x \in (1..Len(ENDPOINTS)) \X dates :
                             ENDPOINTS[x[1]].collection = c}}]

\* The processes that may run save_salesman_invoices at the same time
Processes == {1, 2}

\* A process that is not inside save_salesman_invoices
NoCall ==
    [at |-> "idle", rows |-> <<>>, month |-> <<>>, total_net |-> 0,
     salesman_copy |-> None, existing |-> None]

\* What every specification starts from: a database, no run yet.
InitStored(scripts, starts, ends, ceilings, outages, stores) ==
    /\ profile = scripts
    /\ down \in outages
    /\ BACKFILL_CONFIG \in [start_date : starts, end_date : ends,
                            max_dates_per_run : ceilings]
    /\ skip_existing \in (IF scripts \cap {"invoices", "salesman"} # {}
                          THEN BOOLEAN ELSE {FALSE})
    /\ months_to_fetch = <<>>
    /\ existing_months = <<>>
    /\ idx = 0
    /\ retry_count = 0
    /\ error_count = 0
    /\ skipped_count = 0
    /\ completed = [n \in {} |-> FALSE]
    /\ target_date = None
    /\ selected_endpoints = <<>>
    /\ fetchok = {}
    /\ renew_failed = 0
    /\ skipped = {}
    /\ db \in stores
    /\ now = 0
    /\ script = "none"
    /\ pc = "idle"
    /\ exit_code = -1
    /\ token = None
    /\ Authorization = None
    /\ missing_dates = <<>>
    /\ missing_months = <<>>
    /\ dates_to_process = <<>>
    /\ i = 0
    /\ processed = 0 /\ successful = 0 /\ failed = 0
    /\ missing_endpoints = <<>>
    /\ ep = 0
    /\ attempt = 0
    /\ success_count = 0
    /\ data = None
    /\ runs = 0
    /\ faults = [k \in FaultKinds |-> 0]
    /\ fetched = [u \in Units |-> 0]
    /\ requests = [u \in Units |-> 0]
    /\ wrote = {}
    /\ saves = <<>>
    /\ peer = [script |-> "none", pc |-> "idle", exit_code |-> -1, token |-> None, Authorization |-> None,
               missing_dates |-> <<>>, dates_to_process |-> <<>>, i |-> 0,
               processed |-> 0, successful |-> 0, failed |-> 0,
               missing_endpoints |-> <<>>, ep |-> 0, attempt |-> 0,
               success_count |-> 0, data |-> None,
               fetched |-> [u \in Units |-> 0], requests |-> [u \in Units |-> 0],
               fetchok |-> {}, wrote |-> {},
               backoffs |-> 0, rested |-> TRUE, summary |-> None]
    /\ interrupted = None
    /\ backoffs = 0
    /\ rested = TRUE
    /\ summary = None
    /\ writers = [p \in Processes |-> NoCall]

\* The initial states over a range, with an empty database
InitRange(scripts, starts, ends, ceilings, outages) ==
    InitStored(scripts, starts, ends, ceilings, outages, {EmptyStore})

\* The initial states over a range that begins at start_date
InitOver(scripts, ends, ceilings, outages) ==
    InitRange(scripts, {start_date}, ends, ceilings, outages)

\* The initial states over the range start_date .. end_date
InitWith(scripts, ceilings, outages) == InitOver(scripts, {end_date}, ceilings, outages)

Init == InitWith({"daily"}, 1..NumDates, {{}, {"standard"}})

\* The entry the history keeps of one save_data call
SaveCall(s, collection_name, payload, endpoint_name, date_str, utcnow) ==
    [script |-> s, collection |-> collection_name, endpoint |-> endpoint_name,
     date |-> date_str, data |-> payload, at |-> utcnow]

\* An injected failure spends one unit of the fault budget.
FaultCount == Sum(faults, FaultKinds)
Fault(kind) == FaultCount < MaxFaults /\ faults' = [faults EXCEPT ![kind] = @ + 1]
NoFault == faults' = faults

\* The outcomes of a write to the store, and the failure it is charged as
SaveOutcomes == IF "store" \in down THEN {FALSE} ELSE BOOLEAN
SaveFault == IF "store" \in down THEN NoFault ELSE Fault("save")

(***************************************************************************)
(* Start-up of a backfill run: main() up to the completeness query.        *)
(***************************************************************************)
\* The scheduler starts a script in a new process; the previous run has exited.
Invoke(s) ==
    /\ pc \in {"idle", "done"}
    /\ s \in profile
    /\ runs < RunLimit(profile)
    /\ script' = s
    /\ pc' = "validate"
    /\ exit_code' = -1
    /\ runs' = runs + 1
    /\ now' = now + 1
    /\ token' = None
    /\ Authorization' = None
    /\ missing_dates' = <<>>
    /\ missing_months' = <<>>
    /\ dates_to_process' = <<>>
    /\ i' = 0
    /\ processed' = 0 /\ successful' = 0 /\ failed' = 0
    /\ missing_endpoints' = <<>>
    /\ ep' = 0 /\ attempt' = 0 /\ success_count' = 0 /\ data' = None
    /\ completed' = [n \in {} |-> FALSE]
    /\ target_date' = None
    /\ selected_endpoints' = <<>>
    /\ months_to_fetch' = <<>>
    /\ existing_months' = <<>>
    /\ idx' = 0
    /\ retry_count' = 0
    /\ error_count' = 0
    /\ skipped_count' = 0
    /\ fetched' = [u \in Units |-> 0]
    /\ requests' = [u \in Units |-> 0]
    /\ fetchok' = {}
    /\ wrote' = {}
    /\ renew_failed' = 0
    /\ skipped' = {}
    /\ backoffs' = 0
    /\ rested' = TRUE
    /\ summary' = None
    /\ UNCHANGED <<db, BACKFILL_CONFIG, skip_existing, profile, down, faults, saves, peer, interrupted, writers>>

\* An exit that reports a failure whatever the code asked for.
exit_failure(code) ==
    /\ pc' = "done"
    /\ exit_code' = 1

\* sys.exit(code)
Exit(code) ==
    /\ pc' = "done"
    /\ exit_code' = code

\* "Validate configuration": a required variable absent exits 1
ValidateConfig ==
    /\ pc = "validate"
    /\ \E ok \in BOOLEAN :
         IF ok THEN NoFault /\ pc' = "auth" /\ exit_code' = exit_code
         ELSE Fault("start") /\ Exit(1)
    /\ UNCHANGED <<storeVars, script, token, Authorization, mainVars, dateVars, fetchVars, runs, fetched, requests, fetchok, wrote, renew_failed, skipped>>

\* f'Bearer {self.token}'
Bearer(t) == <<"Bearer", t>>

\* The credential a login of this client answers with
Issued(tok) == IF tok = None THEN 1 ELSE (CHOOSE t \in tok : TRUE) + 1

\* A client whose failed login forgets the credential it held.
authenticate_forgetting(tok, hdr, ok) ==
    IF ok
    THEN [returned |-> TRUE, token |-> Some(Issued(tok)),
          Authorization |-> Some(Bearer(Issued(tok)))]
    ELSE [returned |-> FALSE, token |-> None, Authorization |-> None]

\* LaudusAPIClient.authenticate() of a client holding (tok, hdr): what it
\* returns, self.token and the session's Authorization header afterwards. The
\* login request raising (ok = FALSE) reaches "except" before any assignment.
authenticate(tok, hdr, ok) ==
    IF ok
    THEN [returned |-> TRUE, token |-> Some(Issued(tok)),
          Authorization |-> Some(Bearer(Issued(tok)))]
    ELSE [returned |-> FALSE, token |-> tok, Authorization |-> hdr]

\* api_client.authenticate() at start-up
Authenticate ==
    /\ pc = "auth"
    /\ \E ok \in BOOLEAN :
         LET login == authenticate(token, Authorization, ok)
         IN  /\ token' = login.token
             /\ Authorization' = login.Authorization
             /\ IF login.returned
                THEN NoFault /\ pc' = "connect" /\ exit_code' = exit_code
                ELSE Fault("start") /\ Exit(1)
    /\ UNCHANGED <<storeVars, script, mainVars, dateVars, fetchVars, runs, fetched, requests, fetchok, wrote, renew_failed, skipped>>

\* A start-up that goes on to the query although the store cannot be reached.
ConnectUnchecked ==
    /\ pc = "connect"
    /\ \E ok \in BOOLEAN :
         /\ IF ok THEN NoFault ELSE Fault("start")
         /\ pc' = "query"
         /\ exit_code' = exit_code
    /\ UNCHANGED <<storeVars, script, token, Authorization, mainVars, dateVars, fetchVars, runs, fetched, requests, fetchok, wrote, renew_failed, skipped>>

\* mongo_client.connect()
Connect ==
    /\ pc = "connect"
    /\ \E ok \in BOOLEAN :
         IF ok THEN NoFault /\ pc' = "query" /\ exit_code' = exit_code
         ELSE Fault("start") /\ Exit(1)
    /\ UNCHANGED <<storeVars, script, token, Authorization, mainVars, dateVars, fetchVars, runs, fetched, requests, fetchok, wrote, renew_failed, skipped>>

(***************************************************************************)
(* The completeness query and the batch selection.                         *)
(***************************************************************************)
\* Sets of dates whose lookup may raise within the remaining fault budget.
LookupFailures ==
    {F \in SUBSET Range(generate_date_range(BACKFILL_CONFIG.start_date,
                                            BACKFILL_CONFIG.end_date)) :
        Cardinality(F) <= MaxFaults - FaultCount}

\* The banner "BACKFILL COMPLETO" a backfill logs when nothing is missing
BackfillComplete == [kind |-> "complete"]

\* "RESUMEN DE LOTE" of the batch backfill: the counters, remaining =
\* total_pending - processed and, if remaining > 0, missing_dates[processed]
BatchSummary ==
    LET remaining == Len(missing_dates) - processed
    IN  [kind |-> "batch", successful |-> successful, processed |-> processed,
         failed |-> failed, remaining |-> remaining,
         next |-> IF remaining > 0 THEN Some(missing_dates[processed + 1]) ELSE None]

\* "RESUMEN - MES" of the month backfill: the counters, remaining_months =
\* len(missing_months) - 1 and, if any, missing_months[1:]
MonthSummary ==
    [kind |-> "month", successful |-> successful, processed |-> processed,
     failed |-> failed, remaining |-> Len(missing_months) - 1,
     next |-> Tail(missing_months)]

\* "FINAL SUMMARY" / "RESUMEN" of the automatic and the manual fetch
FinalSummary ==
    [kind |-> "final",
     success_count |-> Cardinality({n \in DOMAIN completed : completed[n]}),
     total_count |-> Cardinality(DOMAIN completed)]

\* "EXECUTION SUMMARY" of the invoices fetcher
ExecutionSummary ==
    [kind |-> "execution", successful |-> success_count, skipped |-> skipped_count,
     errors |-> error_count, total |-> Len(months_to_fetch)]

\* Batch backfill main(): get_missing_dates, "BACKFILL COMPLETO" or the batch
QueryDaily ==
    /\ pc = "query" /\ script = "daily"
    /\ \E F \in LookupFailures :
         LET md == get_missing_dates(db, BACKFILL_CONFIG.start_date,
                                     BACKFILL_CONFIG.end_date, F)
             total_pending == Len(md)
             batch_size == Min(BACKFILL_CONFIG.max_dates_per_run, total_pending)
         IN  /\ faults' = [faults EXCEPT !["lookup"] = @ + Cardinality(F)]
             /\ IF md = <<>>
                THEN /\ Exit(0)
                     /\ summary' = Some(BackfillComplete)
                     /\ UNCHANGED <<missing_dates, dates_to_process, i>>
                ELSE /\ missing_dates' = md
                     /\ dates_to_process' = SubSeq(md, 1, batch_size)
                     /\ i' = 1
                     /\ pc' = "loop"
                     /\ exit_code' = exit_code
                     /\ summary' = summary
    /\ UNCHANGED <<storeBase, backoffs, rested, script, token, Authorization, missing_months,
                   processed, successful, failed, dateVars, fetchVars, runs, fetched, requests, fetchok, wrote, renew_failed, skipped>>

\* Month backfill main(): get_missing_months, then the first pending month
QueryMonthly ==
    /\ pc = "query" /\ script = "monthly"
    /\ \E F \in LookupFailures :
         LET mm == get_missing_months(db, BACKFILL_CONFIG.start_date,
                                      BACKFILL_CONFIG.end_date, F)
         IN  /\ faults' = [faults EXCEPT !["lookup"] = @ + Cardinality(F)]
             /\ IF mm = <<>>
                THEN /\ Exit(0)
                     /\ summary' = Some(BackfillComplete)
                     /\ UNCHANGED <<missing_months, dates_to_process, i>>
                ELSE /\ missing_months' = mm
                     /\ dates_to_process' =
                            valid_dates_of(mm[1], BACKFILL_CONFIG.start_date,
                                           BACKFILL_CONFIG.end_date)
                     /\ i' = 1
                     /\ pc' = "loop"
                     /\ exit_code' = exit_code
                     /\ summary' = summary
    /\ UNCHANGED <<storeBase, backoffs, rested, script, token, Authorization, missing_dates,
                   processed, successful, failed, dateVars, fetchVars, runs, fetched, requests, fetchok, wrote, renew_failed, skipped>>

(***************************************************************************)
(* The batch loop of main() and process_date.                              *)
(***************************************************************************)
\* One iteration head of "for i, date_str in enumerate(batch, 1)": the token
\* renewal, then process_date up to its completeness check and, when it
\* returns at once, sleep(delay_between_dates) "if i < len(dates_to_process)";
\* past the last date, the summary and sys.exit(0).
LoopHead ==
    /\ pc = "loop"
    /\ IF i > Len(dates_to_process)
       THEN /\ Exit(0)
            /\ summary' = Some(IF script = "daily" THEN BatchSummary ELSE MonthSummary)
            /\ UNCHANGED <<token, Authorization, i, processed, successful, failed,
                           missing_endpoints, ep, success_count, faults,
                           renew_failed, skipped, rested>>
       ELSE LET needsRenewal == i > 1 /\ i % renew_every(script) = 1
            IN  \E renewOk \in (IF needsRenewal THEN BOOLEAN ELSE {TRUE}),
                   lookupOk \in BOOLEAN :
                  IF ~renewOk
                  THEN \* "Error al renovar token": continue
                       /\ lookupOk
                       /\ summary' = summary
                       /\ Fault("renew")
                       /\ renew_failed' = renew_failed + 1
                       /\ skipped' = skipped \cup {dates_to_process[i]}
                       /\ i' = i + 1
                       /\ token' = authenticate(token, Authorization, FALSE).token
                       /\ Authorization' =
                              authenticate(token, Authorization, FALSE).Authorization
                       /\ UNCHANGED <<pc, exit_code, processed, successful,
                                      failed, missing_endpoints, ep, success_count,
                                      rested>>
                  ELSE LET res == check_date_exists(db, dates_to_process[i], lookupOk)
                       IN  /\ IF lookupOk THEN NoFault ELSE Fault("lookup")
                           /\ renew_failed' = renew_failed
                           /\ skipped' = skipped
                           /\ summary' = summary
                           /\ token' = IF needsRenewal
                                       THEN authenticate(token, Authorization, TRUE).token
                                       ELSE token
                           /\ Authorization' =
                                  IF needsRenewal
                                  THEN authenticate(token, Authorization, TRUE).Authorization
                                  ELSE Authorization
                           /\ exit_code' = exit_code
                           /\ IF res[1]
                              THEN \* "Ya existe completa en MongoDB, omitiendo"
                                   /\ processed' = processed + 1
                                   /\ successful' = successful + 1
                                   /\ i' = i + 1
                                   /\ rested' = (rested \/ i < Len(dates_to_process))
                                   /\ UNCHANGED <<pc, failed, missing_endpoints,
                                                  ep, success_count>>
                              ELSE /\ missing_endpoints' = res[2]
                                   /\ ep' = 1
                                   /\ success_count' = 0
                                   /\ pc' = "endpoint"
                                   /\ UNCHANGED <<i, processed, successful, failed,
                                                  rested>>
    /\ UNCHANGED <<storeBase, backoffs, script, missing_dates, missing_months,
                   dates_to_process, attempt, data, fetchVars,
                   runs, fetched, requests, fetchok, wrote>>

\* Head of "for endpoint in ENDPOINTS": skip a present endpoint, start the retry
\* loop of a missing one; past the last endpoint, process_date returns and
\* main() sleeps delay_between_dates "if i < len(dates_to_process)".
EndpointHead ==
    /\ pc = "endpoint"
    /\ IF ep > Len(ENDPOINTS)
       THEN /\ processed' = processed + 1
            /\ IF success_count = Len(ENDPOINTS)
               THEN successful' = successful + 1 /\ failed' = failed
               ELSE failed' = failed + 1 /\ successful' = successful
            /\ i' = i + 1
            /\ pc' = "loop"
            /\ rested' = (rested \/ i < Len(dates_to_process))
            /\ UNCHANGED <<ep, attempt, success_count>>
       ELSE IF ENDPOINTS[ep].name \notin Range(missing_endpoints)
            THEN /\ success_count' = success_count + 1
                 /\ ep' = ep + 1
                 /\ UNCHANGED <<pc, attempt, i, processed, successful, failed, rested>>
            ELSE /\ attempt' = 1
                 /\ pc' = "fetch"
                 /\ UNCHANGED <<ep, success_count, i, processed, successful, failed,
                                rested>>
    /\ UNCHANGED <<storeOnly, backoffs, script, exit_code, token, Authorization, missing_dates, missing_months,
                   dates_to_process, missing_endpoints, data, fetchVars, histVars>>

\* A retry loop that runs one attempt past the ceiling.
RetryOnceMore ==
    IF attempt <= max_retries(script)
    THEN attempt' = attempt + 1 /\ pc' = "fetch" /\ ep' = ep /\ backoffs' = backoffs + 1
         /\ rested' = TRUE
    ELSE attempt' = attempt /\ pc' = "endpoint" /\ ep' = ep + 1 /\ backoffs' = backoffs
         /\ rested' = (ep < Len(ENDPOINTS))

\* A retry loop that does not count the attempt that failed.
RetryUncounted ==
    IF attempt < max_retries(script)
    THEN attempt' = attempt /\ pc' = "fetch" /\ ep' = ep /\ backoffs' = backoffs + 1
         /\ rested' = TRUE
    ELSE attempt' = attempt /\ pc' = "endpoint" /\ ep' = ep + 1 /\ backoffs' = backoffs
         /\ rested' = (ep < Len(ENDPOINTS))

\* After a failed attempt: "if attempt < max_retries: sleep(retry_delay)" and the
\* next attempt, or the end of the retry loop and then, "if endpoint !=
\* ENDPOINTS[-1]", sleep(delay_between_endpoints).
RetryOrGiveUp ==
    IF attempt < max_retries(script)
    THEN attempt' = attempt + 1 /\ pc' = "fetch" /\ ep' = ep /\ backoffs' = backoffs + 1
         /\ rested' = TRUE
    ELSE attempt' = attempt /\ pc' = "endpoint" /\ ep' = ep + 1 /\ backoffs' = backoffs
         /\ rested' = (ep < Len(ENDPOINTS))

CurrentId == DocId(dates_to_process[i], ENDPOINTS[ep].name)

\* What one fetch call can return: None always; the payload unless the endpoint is down.
Responses(date_str, endpoint_name) ==
    IF endpoint_name \in down THEN {None}
    ELSE {None, Some(upstream(date_str, endpoint_name))}

\* api_client.fetch_balance_sheet(endpoint, date_str): a payload, or None on a
\* timeout, an HTTP error or any other exception
Fetch ==
    /\ pc = "fetch"
    /\ fetched' = [fetched EXCEPT ![CurrentId] = @ + 1]
    /\ requests' = [requests EXCEPT ![CurrentId] = @ + 1]
    /\ \E r \in Responses(dates_to_process[i], ENDPOINTS[ep].name) :
         /\ data' = r
         /\ IF r = None
            THEN /\ IF ENDPOINTS[ep].name \in down THEN NoFault ELSE Fault("fetch")
                 /\ RetryOrGiveUp
                 /\ fetchok' = fetchok
            ELSE /\ NoFault
                 /\ pc' = "save"
                 /\ fetchok' = fetchok \cup {CurrentId}
                 /\ rested' = FALSE
                 /\ UNCHANGED <<ep, attempt, backoffs>>
    /\ UNCHANGED <<storeOnly, script, exit_code, token, Authorization, mainVars,
                   missing_endpoints, success_count, fetchVars,
                   runs, wrote, renew_failed, skipped>>

\* mongo_client.save_data(...): True after the upsert, False on a PyMongoError;
\* after the upsert the retry loop ends and, "if endpoint != ENDPOINTS[-1]",
\* sleep(delay_between_endpoints)
Save ==
    /\ pc = "save"
    /\ \E ok \in SaveOutcomes :
         IF ok
         THEN /\ db' = save_data(db, script, ENDPOINTS[ep].collection,
                                 CHOOSE p \in data : TRUE,
                                 ENDPOINTS[ep].name, dates_to_process[i], now)
              /\ wrote' = wrote \cup {CurrentId}
              /\ success_count' = success_count + 1
              /\ ep' = ep + 1
              /\ pc' = "endpoint"
              /\ NoFault
              /\ rested' = (rested \/ ep < Len(ENDPOINTS))
              /\ UNCHANGED <<attempt, backoffs>>
         ELSE /\ SaveFault
              /\ RetryOrGiveUp
              /\ UNCHANGED <<db, wrote, success_count>>
    /\ data' = None
    /\ UNCHANGED <<now, BACKFILL_CONFIG, skip_existing, profile, down, script,
                   exit_code, token, Authorization, mainVars, missing_endpoints, fetchVars,
                   runs, fetched, requests, fetchok, renew_failed, skipped, saves, peer, interrupted, writers, summary>>

(***************************************************************************)
(* The automatic fetch (fetch_balancesheet.py) and the manual fetch        *)
(* (fetch_balancesheet_manual.py): one date, a retry loop over rounds.     *)
(***************************************************************************)
\* A manual script that names its records after the --endpoints keys.
MANUAL_ENDPOINTS_by_key ==
    [k \in {"totals", "standard", "8columns"} |->
        CASE k = "totals"   -> [ENDPOINTS[1] EXCEPT !.name = k]
          [] k = "standard" -> [ENDPOINTS[2] EXCEPT !.name = k]
          [] k = "8columns" -> [ENDPOINTS[3] EXCEPT !.name = k]]

\* ENDPOINTS of the manual script: a dict keyed by the --endpoints choices
MANUAL_ENDPOINTS ==
    [k \in {"totals", "standard", "8columns"} |->
        CASE k = "totals"   -> ENDPOINTS[1]
          [] k = "standard" -> ENDPOINTS[2]
          [] k = "8columns" -> ENDPOINTS[3]]

\* --endpoints values of the manual runs
Selections == {<<"totals", "standard", "8columns">>, <<"standard">>,
               <<"8columns", "totals">>}

\* Dates the automatic (yesterday) and the manual (--date) runs load
TargetDates == {start_date}

all_completed == \A n \in DOMAIN completed : completed[n]

\* main() from "Get target date" to the retry loop
BeginFetch ==
    /\ pc = "query" /\ script \in {"automatic", "manual"}
    /\ \E d \in TargetDates :
       \E sel \in (IF script = "manual"
                   THEN {[k \in 1..Len(a) |-> MANUAL_ENDPOINTS[a[k]]] : a \in Selections}
                   ELSE {ENDPOINTS}) :
         /\ target_date' = Some(d)
         /\ selected_endpoints' = sel
         /\ completed' = [n \in {sel[k].name : k \in 1..Len(sel)} |-> FALSE]
    /\ attempt' = 0
    /\ pc' = "round"
    /\ UNCHANGED <<storeVars, script, exit_code, token, Authorization, mainVars,
                   missing_endpoints, ep, success_count, data, invVars, histVars>>

\* A retry loop in which a round whose token renewal fails is not counted.
RoundHeadUncounted ==
    /\ pc = "round"
    /\ IF attempt < max_retries(script) /\ ~all_completed
       THEN LET needsRenewal == attempt + 1 > 1 /\ (attempt + 1) % 3 = 1
            IN  /\ exit_code' = exit_code
                /\ summary' = summary
                /\ \E renewOk \in (IF needsRenewal THEN BOOLEAN ELSE {TRUE}) :
                     IF ~renewOk
                     THEN \* "Failed to renew token": sleep(retry_delay); continue
                          /\ Fault("renew")
                          /\ attempt' = attempt
                          /\ renew_failed' = renew_failed + 1
                          /\ skipped' = skipped
                          /\ backoffs' = backoffs + 1
                          /\ rested' = TRUE
                          /\ token' = authenticate(token, Authorization, FALSE).token
                          /\ Authorization' =
                                 authenticate(token, Authorization, FALSE).Authorization
                          /\ UNCHANGED <<pc, ep>>
                     ELSE /\ NoFault
                          /\ attempt' = attempt + 1
                          /\ renew_failed' = renew_failed
                          /\ skipped' = skipped
                          /\ backoffs' = backoffs
                          /\ rested' = rested
                          /\ token' = IF needsRenewal
                                      THEN authenticate(token, Authorization, TRUE).token
                                      ELSE token
                          /\ Authorization' =
                                 IF needsRenewal
                                 THEN authenticate(token, Authorization, TRUE).Authorization
                                 ELSE Authorization
                          /\ ep' = 1
                          /\ pc' = "r_endpoint"
       ELSE /\ Exit(IF all_completed THEN 0 ELSE 1)
            /\ summary' = Some(FinalSummary)
            /\ UNCHANGED <<attempt, token, Authorization, ep, faults, renew_failed, skipped, backoffs, rested>>
    /\ UNCHANGED <<storeBase, script, mainVars, missing_endpoints, success_count,
                   data, fetchVars, runs, fetched, requests, fetchok, wrote>>

\* Head of "while attempt < max_attempts and not all(completed.values())": the
\* token renewal of the round; after the loop, the summary and sys.exit.
RoundHead ==
    /\ pc = "round"
    /\ IF attempt < max_retries(script) /\ ~all_completed
       THEN LET needsRenewal == attempt + 1 > 1 /\ (attempt + 1) % 3 = 1
            IN  /\ attempt' = attempt + 1
                /\ exit_code' = exit_code
                /\ summary' = summary
                /\ \E renewOk \in (IF needsRenewal THEN BOOLEAN ELSE {TRUE}) :
                     IF ~renewOk
                     THEN \* "Failed to renew token": sleep(retry_delay); continue
                          /\ Fault("renew")
                          /\ renew_failed' = renew_failed + 1
                          /\ skipped' = skipped
                          /\ backoffs' = backoffs + 1
                          /\ rested' = TRUE
                          /\ token' = authenticate(token, Authorization, FALSE).token
                          /\ Authorization' =
                                 authenticate(token, Authorization, FALSE).Authorization
                          /\ UNCHANGED <<pc, ep>>
                     ELSE /\ NoFault
                          /\ renew_failed' = renew_failed
                          /\ skipped' = skipped
                          /\ backoffs' = backoffs
                          /\ rested' = rested
                          /\ token' = IF needsRenewal
                                      THEN authenticate(token, Authorization, TRUE).token
                                      ELSE token
                          /\ Authorization' =
                                 IF needsRenewal
                                 THEN authenticate(token, Authorization, TRUE).Authorization
                                 ELSE Authorization
                          /\ ep' = 1
                          /\ pc' = "r_endpoint"
       ELSE /\ Exit(IF all_completed THEN 0 ELSE 1)
            /\ summary' = Some(FinalSummary)
            /\ UNCHANGED <<attempt, token, Authorization, ep, faults, renew_failed, skipped, backoffs, rested>>
    /\ UNCHANGED <<storeBase, script, mainVars, missing_endpoints, success_count,
                   data, fetchVars, runs, fetched, requests, fetchok, wrote>>

\* A round that fetches every endpoint again, completed or not.
RoundEndpointHeadNoSkip ==
    /\ pc = "r_endpoint"
    /\ IF ep > Len(selected_endpoints)
       THEN /\ pc' = "round" /\ ep' = ep
            /\ backoffs' = IF ~all_completed /\ attempt < max_retries(script)
                           THEN backoffs + 1 ELSE backoffs
            /\ rested' = (rested \/ (~all_completed /\ attempt < max_retries(script)))
       ELSE /\ backoffs' = backoffs
            /\ IF FALSE
               THEN pc' = pc /\ ep' = ep + 1 /\ rested' = rested
               ELSE /\ pc' = "r_fetch" /\ ep' = ep
                    /\ rested' = (rested \/ (script = "manual" /\ attempt = 1 /\ ep > 1))
    /\ UNCHANGED <<storeOnly, script, exit_code, token, Authorization, mainVars, missing_endpoints,
                   attempt, success_count, data, fetchVars, histVars>>

\* Head of "for endpoint in ENDPOINTS" inside a round: skip a completed
\* endpoint, or go on to the fetch, which the manual script precedes with
\* sleep(endpoint_delay) "if attempt == 1 and i > 0"; past the last endpoint,
\* "Wait before next attempt": sleep(retry_delay) unless all completed or the
\* last attempt
RoundEndpointHead ==
    /\ pc = "r_endpoint"
    /\ IF ep > Len(selected_endpoints)
       THEN /\ pc' = "round" /\ ep' = ep
            /\ backoffs' = IF ~all_completed /\ attempt < max_retries(script)
                           THEN backoffs + 1 ELSE backoffs
            /\ rested' = (rested \/ (~all_completed /\ attempt < max_retries(script)))
       ELSE /\ backoffs' = backoffs
            /\ IF completed[selected_endpoints[ep].name]
               THEN pc' = pc /\ ep' = ep + 1 /\ rested' = rested
               ELSE /\ pc' = "r_fetch" /\ ep' = ep
                    /\ rested' = (rested \/ (script = "manual" /\ attempt = 1 /\ ep > 1))
    /\ UNCHANGED <<storeOnly, script, exit_code, token, Authorization, mainVars, missing_endpoints,
                   attempt, success_count, data, fetchVars, histVars>>

TargetId == DocId(CHOOSE d \in target_date : TRUE, selected_endpoints[ep].name)

\* Retry(total=...) of the adapter mounted on the session: the manual script
\* mounts Retry(total=2); the other sessions send a request once
Retry_total(s) == IF s = "manual" THEN 2 ELSE 0

\* api_client.fetch_balance_sheet(endpoint, target_date) in a round: one
\* session.get, which the adapter of the session sends again after a timeout, a
\* connection error or a 429/5xx answer, Retry_total times at most. An endpoint
\* that never answers uses up the adapter's retries; an answer that comes after
\* k failed requests absorbed k transient failures.
RoundFetch ==
    /\ pc = "r_fetch"
    /\ fetched' = [fetched EXCEPT ![TargetId] = @ + 1]
    /\ \E r \in Responses(CHOOSE d \in target_date : TRUE, selected_endpoints[ep].name),
          k \in 0..Retry_total(script) :
         /\ data' = r
         /\ requests' = [requests EXCEPT ![TargetId] = @ + 1 + k]
         /\ rested' = FALSE
         /\ IF r = None
            THEN /\ IF selected_endpoints[ep].name \in down
                    THEN k = Retry_total(script) /\ NoFault
                    ELSE k = 0 /\ Fault("fetch")
                 /\ ep' = ep + 1
                 /\ pc' = "r_endpoint"
                 /\ fetchok' = fetchok
            ELSE /\ FaultCount + k <= MaxFaults
                 /\ faults' = [faults EXCEPT !["fetch"] = @ + k]
                 /\ ep' = ep
                 /\ pc' = "r_save"
                 /\ fetchok' = fetchok \cup {TargetId}
    /\ UNCHANGED <<storeOnly, backoffs, script, exit_code, token, Authorization, mainVars, missing_endpoints,
                   attempt, success_count, fetchVars, runs, wrote, renew_failed, skipped>>

\* mongo_client.save_data(...) in a round, and the completed flag
RoundSave ==
    /\ pc = "r_save"
    /\ \E ok \in SaveOutcomes :
         IF ok
         THEN /\ db' = save_data(db, script, selected_endpoints[ep].collection,
                                 CHOOSE p \in data : TRUE,
                                 selected_endpoints[ep].name,
                                 CHOOSE d \in target_date : TRUE, now)
              /\ wrote' = wrote \cup {TargetId}
              /\ completed' = [completed EXCEPT ![selected_endpoints[ep].name] = TRUE]
              /\ NoFault
         ELSE /\ SaveFault
              /\ UNCHANGED <<db, wrote, completed>>
    /\ ep' = ep + 1
    /\ pc' = "r_endpoint"
    /\ data' = None
    /\ UNCHANGED <<now, BACKFILL_CONFIG, skip_existing, profile, down, script,
                   exit_code, token, Authorization, mainVars, missing_endpoints, attempt,
                   success_count, target_date, selected_endpoints, invVars,
                   runs, fetched, requests, fetchok, renew_failed, skipped, saves, peer, interrupted, writers,
                   backoffs, rested, summary>>

(***************************************************************************)
(* The monthly invoices fetcher (fetch_invoices_monthly.py).               *)
(***************************************************************************)
\* The aggregate the upstream API holds for a month (one element per month).
invoice_row(month_key) == [month |-> month_key[2], total |-> 100]

\* What fetch_invoices_by_month can return: None, an empty list, the month's list.
InvoiceResponses ==
    IF "byMonth" \in down THEN {None}
    ELSE {None, Some(<<>>), Some(<<invoice_row(months_to_fetch[idx])>>)}

\* The document save_invoices builds from data[0]
InvoiceDocument(month_key, month_data, utcnow) ==
    [month |-> month_key, year |-> month_key[1], monthNumber |-> month_key[2],
     monthName |-> month_data.month, total |-> month_data.total,
     insertedAt |-> utcnow, rawData |-> month_data]

\* collection.update_one({'month': month_key}, {'$set': document}, upsert=True)
update_one_set(coll, month_key, document, utcnow) ==
    LET hit == {d \in coll : d.month = month_key}
        set(old) == [f \in DOMAIN old \cup DOMAIN document |->
                        IF f \in DOMAIN document THEN document[f] ELSE old[f]]
    IN  IF hit = {}
        THEN coll \cup {set([_id |-> <<"ObjectId", month_key, utcnow>>,
                             month |-> month_key])}
        ELSE LET old == CHOOSE d \in hit : TRUE
             IN  (coll \ {old}) \cup {set(old)}

\* MongoDBClient.save_invoices, successful path: the database after the upsert
save_invoices(database, month_key, invoice_data, utcnow) ==
    [database EXCEPT !["invoices_by_month"] =
        update_one_set(@, month_key,
                       InvoiceDocument(month_key, invoice_data[1], utcnow), utcnow)]

\* get_existing_months(): sorted(collection.distinct('month')), [] on an error
get_existing_months(database, lookupOk) ==
    IF lookupOk
    THEN SelectSeq(InvoiceMonths,
                   LAMBDA m : \E d \in database["invoices_by_month"] : d.month = m)
    ELSE <<>>

\* main() from "Check existing months" to the loop over the months
BeginInvoices ==
    /\ pc = "query" /\ script = "invoices"
    /\ \E lookupOk \in BOOLEAN :
         /\ IF lookupOk THEN NoFault ELSE Fault("lookup")
         /\ existing_months' = get_existing_months(db, lookupOk)
    /\ months_to_fetch' = InvoiceMonths
    /\ idx' = 1
    /\ success_count' = 0
    /\ error_count' = 0
    /\ skipped_count' = 0
    /\ pc' = "i_month"
    /\ UNCHANGED <<storeVars, script, exit_code, token, Authorization, mainVars, missing_endpoints,
                   ep, attempt, data, completed, target_date, selected_endpoints,
                   retry_count, runs, fetched, requests, fetchok, wrote, renew_failed, skipped>>

\* Head of "for idx, (year, month) in enumerate(months_to_fetch, 1)"; after the
\* loop, the summary and sys.exit(1 if error_count > 0 else 0)
MonthHead ==
    /\ pc = "i_month"
    /\ IF idx > Len(months_to_fetch)
       THEN /\ Exit(IF error_count > 0 THEN 1 ELSE 0)
            /\ summary' = Some(ExecutionSummary)
            /\ UNCHANGED <<idx, retry_count, skipped_count>>
       ELSE /\ exit_code' = exit_code
            /\ summary' = summary
            /\ IF skip_existing /\ months_to_fetch[idx] \in Range(existing_months)
               THEN /\ skipped_count' = skipped_count + 1
                    /\ idx' = idx + 1
                    /\ UNCHANGED <<pc, retry_count>>
               ELSE /\ retry_count' = 0
                    /\ pc' = "i_fetch"
                    /\ UNCHANGED <<idx, skipped_count>>
    /\ UNCHANGED <<storeBase, backoffs, rested, script, token, Authorization, mainVars, dateVars,
                   completed, target_date, selected_endpoints, months_to_fetch,
                   existing_months, error_count, histVars>>

\* "retry_count += 1", then the while condition: the next attempt after
\* sleep(retry_delay), or "Failed to process ... after max_retries retries" and
\* sleep(DELAY_BETWEEN_MONTHS) "if idx < len(months_to_fetch)"
InvoiceRetry ==
    /\ retry_count' = retry_count + 1
    /\ IF retry_count + 1 < max_retries(script)
       THEN /\ pc' = "i_fetch" /\ backoffs' = backoffs + 1 /\ UNCHANGED <<idx, error_count>>
            /\ rested' = TRUE
       ELSE /\ pc' = "i_month" /\ error_count' = error_count + 1 /\ idx' = idx + 1
            /\ backoffs' = backoffs
            /\ rested' = (idx < Len(months_to_fetch))

\* api_client.fetch_invoices_by_month(year, month)
InvoiceFetch ==
    /\ pc = "i_fetch"
    /\ fetched' = [fetched EXCEPT ![MonthUnit(months_to_fetch[idx])] = @ + 1]
    /\ requests' = [requests EXCEPT ![MonthUnit(months_to_fetch[idx])] = @ + 1]
    /\ \E r \in InvoiceResponses :
         /\ data' = r
         /\ IF r = None
            THEN /\ IF "byMonth" \in down THEN NoFault ELSE Fault("fetch")
                 /\ InvoiceRetry
                 /\ fetchok' = fetchok
            ELSE /\ NoFault
                 /\ pc' = "i_save"
                 /\ fetchok' = fetchok \cup {MonthUnit(months_to_fetch[idx])}
                 /\ rested' = FALSE
                 /\ UNCHANGED <<idx, retry_count, error_count, backoffs>>
    /\ UNCHANGED <<storeOnly, script, exit_code, token, Authorization, mainVars, missing_endpoints,
                   ep, attempt, success_count, completed, target_date,
                   selected_endpoints, months_to_fetch, existing_months,
                   skipped_count, runs, wrote, renew_failed, skipped>>

\* db_client.save_invoices(year, month, data): False for an empty list or on any
\* exception, True after the upsert
InvoiceSave ==
    /\ pc = "i_save"
    /\ LET payload == CHOOSE p \in data : TRUE
       IN  \E ok \in (IF payload = <<>> THEN {FALSE} ELSE SaveOutcomes) :
             IF ok
             THEN /\ db' = save_invoices(db, months_to_fetch[idx], payload, now)
                  /\ wrote' = wrote \cup {MonthUnit(months_to_fetch[idx])}
                  /\ success_count' = success_count + 1
                  /\ idx' = idx + 1
                  /\ pc' = "i_month"
                  /\ NoFault
                  /\ rested' = (rested \/ idx < Len(months_to_fetch))
                  /\ UNCHANGED <<retry_count, error_count, backoffs>>
             ELSE /\ SaveFault
                  /\ InvoiceRetry
                  /\ UNCHANGED <<db, wrote, success_count>>
    /\ data' = None
    /\ UNCHANGED <<now, BACKFILL_CONFIG, skip_existing, profile, down, script,
                   exit_code, token, Authorization, mainVars, missing_endpoints, ep, attempt,
                   completed, target_date, selected_endpoints, months_to_fetch,
                   existing_months, skipped_count,
                   runs, fetched, requests, fetchok, renew_failed, skipped, saves, peer, interrupted, writers, summary>>

\* The steps of an invoices run after its start-up.
InvoiceStep ==
    \/ BeginInvoices
    \/ MonthHead
    \/ InvoiceFetch
    \/ InvoiceSave

\* The start-up every script shares.
StartUp ==
    \/ ValidateConfig
    \/ Authenticate
    \/ Connect

\* The steps of a backfill run after its start-up.
BackfillStep ==
    \/ LoopHead
    \/ EndpointHead
    \/ Fetch
    \/ Save

\* The steps of an automatic or manual run after its start-up.
FetchStep ==
    \/ BeginFetch
    \/ RoundHead
    \/ RoundEndpointHead
    \/ RoundFetch
    \/ RoundSave

\* Repeated invocations of the batch backfill (fetch_balancesheet_daily.py).
Next ==
    \/ Invoke("daily")
    \/ StartUp
    \/ QueryDaily
    \/ BackfillStep

Spec == Init /\ [][Next]_vars

\* The batch backfill against a store that may refuse every write.
InitReadOnly == InitWith({"daily"}, 1..NumDates, {{}, {"store"}})
SpecReadOnly == InitReadOnly /\ [][Next]_vars

\* The batch backfill over a range and with a ceiling that reach a token renewal.
InitRenewal ==
    InitOver({"daily"}, {RenewalEnd}, {renew_every("daily") + 1}, {{}})
SpecRenewal == InitRenewal /\ [][Next]_vars

\* The batch backfill over that range, against a store that is empty or has the
\* date at the renewal position loaded already by the automatic script.
InitSkipped ==
    InitStored({"daily"}, {start_date}, {RenewalEnd}, {renew_every("daily") + 1}, {{}},
               {EmptyStore, StoreWith("automatic", {RenewalEnd})})
SpecSkipped == InitSkipped /\ [][Next]_vars

\* Repeated invocations of the month-per-run backfill (fetch_balancesheet_backfill.py).
NextMonthly ==
    \/ Invoke("monthly")
    \/ StartUp
    \/ QueryMonthly
    \/ BackfillStep

InitMonthly == InitWith({"monthly"}, 1..NumDates, {{}, {"standard"}})
SpecMonthly == InitMonthly /\ [][NextMonthly]_vars

\* Invocations of the automatic and the manual fetch.
NextFetch ==
    \/ Invoke("automatic")
    \/ Invoke("manual")
    \/ StartUp
    \/ FetchStep

InitFetch == InitWith({"automatic", "manual"}, {NumDates}, {{}, {"standard"}})
SpecFetch == InitFetch /\ [][NextFetch]_vars

\* Invocations of the automatic fetch, a process that is never suspended for
\* ever: whenever it can take a step it eventually takes one.
NextAutomatic ==
    \/ Invoke("automatic")
    \/ StartUp
    \/ FetchStep

InitAutomatic == InitWith({"automatic"}, {NumDates}, {{}, {"standard"}})
SpecAutomatic == InitAutomatic /\ [][NextAutomatic]_vars /\ WF_vars(NextAutomatic)

\* Invocations of the monthly invoices fetcher.
NextInvoices ==
    \/ Invoke("invoices")
    \/ StartUp
    \/ InvoiceStep

InitInvoices == InitWith({"invoices"}, {NumDates}, {{}, {"byMonth"}})
SpecInvoices == InitInvoices /\ [][NextInvoices]_vars

\* Invocations of all four balance-sheet scripts against one store.
NextSync ==
    \/ Invoke("daily")
    \/ Invoke("monthly")
    \/ Invoke("automatic")
    \/ Invoke("manual")
    \/ StartUp
    \/ QueryDaily
    \/ QueryMonthly
    \/ BackfillStep
    \/ FetchStep

InitSync == InitWith({"daily", "monthly", "automatic", "manual"}, {NumDates}, {{}})
SpecSync == InitSync /\ [][NextSync]_vars

\* Each balance-sheet script against a store of its own, the backfills over
\* ranges long enough for their loops to reach a token renewal; the month of
\* the month backfill has its first dates complete already.
InitRenewals ==
    \/ InitOver({"daily"}, {RenewalEnd}, {renew_every("daily") + 1}, {{}})
    \/ InitStored({"monthly"}, {MonthRenewalStart}, {MonthRenewalEnd}, {NumDates}, {{}},
                  {StoreWith("monthly", MonthRenewalDone)})
    \/ InitWith({"automatic", "manual"}, {NumDates}, {{}, {"standard"}})
SpecRenewals == InitRenewals /\ [][NextSync]_vars

(***************************************************************************)
(* The store contract of save_data: clients call it one after another,     *)
(* with any date of the range, any report kind and any payload.            *)
(***************************************************************************)
\* mongo_client.save_data(endpoint['collection'], data, endpoint['name'], date_str)
\* called by script s; datetime.utcnow() is later at every call
SaveData(s, endpoint, date_str, payload) ==
    /\ pc = "idle"
    /\ s \in profile
    /\ Len(saves) < MaxSaves
    /\ db' = save_data(db, s, endpoint.collection, payload, endpoint.name, date_str, now)
    /\ saves' = Append(saves, SaveCall(s, endpoint.collection, payload,
                                       endpoint.name, date_str, now))
    /\ now' = now + 1
    /\ UNCHANGED <<BACKFILL_CONFIG, skip_existing, profile, down, script, pc,
                   exit_code, token, Authorization, mainVars, dateVars, fetchVars, histVars, peer, interrupted, writers,
                   backoffs, rested, summary>>

NextStore ==
    \E s \in {"daily", "automatic"}, e \in 1..Len(ENDPOINTS),
       d \in {start_date, end_date}, p \in Payloads :
        SaveData(s, ENDPOINTS[e], d, p)

InitStore == InitWith({"daily", "automatic"}, {NumDates}, {{}})
SpecStore == InitStore /\ [][NextStore]_vars

(***************************************************************************)
(* The four balance-sheet writers against one store, and its readers. The  *)
(* dates of the automatic script and of the backfills come out of          *)
(* strftime('%Y-%m-%d'); the manual script and the generator use the text  *)
(* of --date as it was typed.                                              *)
(***************************************************************************)
\* A --date typed without zero padding ("2025-2-1"): another string than the
\* '%Y-%m-%d' text of the same day, which the model writes as the date itself
Unpadded(d) == IF d[2] < 10 \/ d[3] < 10 THEN <<d[1], d[2], d[3], "unpadded">> ELSE d

\* The calendar day a date text stands for
Denoted(date_str) == <<date_str[1], date_str[2], date_str[3]>>

\* MongoDBClient.get_8columns_data(date_str) of generate_balance_general.py
get_8columns_data(database, date_str) ==
    find_one(database["balance_8columns"], DocId(date_str, "8Columns"))

\* The writers save one after another: the automatic script and the two
\* backfills under the dates they compute, the manual script under its --date.
NextKeys ==
    \/ \E s \in {"daily", "monthly", "automatic"}, e \in 1..Len(ENDPOINTS),
          d \in {start_date, end_date} :
           SaveData(s, ENDPOINTS[e], d, upstream(d, ENDPOINTS[e].name))
    \/ \E k \in DOMAIN MANUAL_ENDPOINTS, d \in {start_date, end_date} :
          \E date_str \in {d, Unpadded(d)} :
             SaveData("manual", MANUAL_ENDPOINTS[k], date_str,
                      upstream(d, MANUAL_ENDPOINTS[k].name))

InitKeys == InitWith({"daily", "monthly", "automatic", "manual"}, {NumDates}, {{}})
SpecKeys == InitKeys /\ [][NextKeys]_vars

(***************************************************************************)
(* The one-time migration (migrate_add_loadsource.py) over a store that    *)
(* holds documents written before save_data stamped loadSource.            *)
(***************************************************************************)
\* COLLECTIONS of migrate_add_loadsource.py
MIGRATE_COLLECTIONS == <<"balance_8columns">>

\* A document "without loadSource": what save_data stored before the field
LegacyDocument(payload, endpoint_name, date_str, utcnow) ==
    [_id          |-> DocId(date_str, endpoint_name),
     date         |-> date_str,
     endpointType |-> endpoint_name,
     recordCount  |-> Len(payload),
     insertedAt   |-> utcnow,
     data         |-> payload]

\* query = {'loadSource': {'$exists': False}}
query(doc) == "loadSource" \notin DOMAIN doc

\* {'$set': {'loadSource': 'automatic'}} applied to one document
set_loadSource(doc) ==
    [f \in DOMAIN doc \cup {"loadSource"} |->
        IF f = "loadSource" THEN "automatic" ELSE doc[f]]

\* An update that stamps every document of the collection.
update_many_all(coll, matched) == {set_loadSource(d) : d \in coll}

\* collection.update_many(query, {'$set': ...}) reaching the documents `matched`
update_many(coll, matched) ==
    {IF d \in matched THEN set_loadSource(d) ELSE d : d \in coll}

\* The store after the loop over COLLECTIONS
migrate(database) ==
    [c \in DOMAIN database |->
        IF c \in Range(MIGRATE_COLLECTIONS)
        THEN update_many(database[c], {d \in database[c] : query(d)})
        ELSE database[c]]

\* total_updated: the sum of result.modified_count over COLLECTIONS
RECURSIVE total_updated(_, _)
total_updated(database, k) ==
    IF k = 0 THEN 0
    ELSE total_updated(database, k - 1)
         + Cardinality({d \in database[MIGRATE_COLLECTIONS[k]] : query(d)})

\* main() of the migration: MONGODB_URI unset or the connection failing exits
\* 1 before any write; an update_many that raises part-way has stamped some of
\* the matching documents; otherwise every matching document is stamped.
Migrate ==
    /\ script = "migrate" /\ pc = "validate"
    /\ \E outcome \in {"ok", "unreachable", "interrupted"} :
         CASE outcome = "ok" ->
                /\ NoFault
                /\ db' = migrate(db)
                /\ summary' = Some([total_updated |->
                                       total_updated(db, Len(MIGRATE_COLLECTIONS))])
                /\ Exit(0)
           [] outcome = "unreachable" ->
                /\ Fault("start")
                /\ db' = db
                /\ summary' = None
                /\ Exit(1)
           [] outcome = "interrupted" ->
                /\ Fault("save")
                /\ \E c \in Range(MIGRATE_COLLECTIONS) :
                     \E matched \in SUBSET {d \in db[c] : query(d)} :
                        db' = [db EXCEPT ![c] = update_many(db[c], matched)]
                /\ summary' = None
                /\ Exit(1)
    /\ UNCHANGED <<now, saves, BACKFILL_CONFIG, skip_existing, profile, down, script,
                   token, Authorization, mainVars, dateVars, fetchVars, runs, fetched,
                   requests, fetchok, wrote, renew_failed, skipped, peer, interrupted,
                   writers, backoffs, rested>>

NextMigration ==
    \/ Invoke("migrate")
    \/ Migrate

\* The stores of the migration: each of four units absent, written before the
\* field existed, or written with it by the automatic or the manual script
MigrationUnits == {start_date, end_date} \X {1, 3}
MigrationStores ==
    {[c \in DOMAIN EmptyStore |->
         {IF f[u] = "legacy"
          THEN LegacyDocument(upstream(u[1], ENDPOINTS[u[2]].name),
                              ENDPOINTS[u[2]].name, u[1], 0)
          ELSE Document(f[u], upstream(u[1], ENDPOINTS[u[2]].name),
                        ENDPOINTS[u[2]].name, u[1], 0) :
             u \in {v \in MigrationUnits :
                       ENDPOINTS[v[2]].collection = c /\ f[v] # "absent"}}] :
        f \in [MigrationUnits -> {"absent", "legacy", "automatic", "manual"}]}

InitMigration ==
    InitStored({"migrate"}, {start_date}, {end_date}, {NumDates}, {{}}, MigrationStores)
SpecMigration == InitMigration /\ [][NextMigration]_vars

\* Every script, each scheduled against a store of its own.
NextAll ==
    \/ Invoke("daily")
    \/ Invoke("monthly")
    \/ Invoke("automatic")
    \/ Invoke("manual")
    \/ Invoke("invoices")
    \/ StartUp
    \/ QueryDaily
    \/ QueryMonthly
    \/ BackfillStep
    \/ FetchStep
    \/ InvoiceStep

InitAll ==
    \/ InitWith({"daily"}, {NumDates}, {{}, {"standard"}})
    \/ InitWith({"monthly"}, {NumDates}, {{}, {"standard"}})
    \/ InitWith({"automatic", "manual"}, {NumDates}, {{}, {"standard"}})
    \/ InitWith({"invoices"}, {NumDates}, {{}, {"byMonth"}})
SpecAll == InitAll /\ [][NextAll]_vars

(***************************************************************************)
(* Invocations of the batch backfill, one of which is terminated from      *)
(* outside (Ctrl-C, a kill, the scheduler's time limit).                   *)
(***************************************************************************)
\* The run ends where it stands: KeyboardInterrupt makes __main__ exit 130, a
\* kill ends the process with status 137. Nothing else of the script runs.
Terminate ==
    /\ pc \in {"validate", "auth", "connect", "query", "loop", "endpoint", "fetch", "save"}
    /\ interrupted = None
    /\ interrupted' =
           Some([run  |-> runs,
                 unit |-> IF /\ pc \in {"fetch", "save"}
                             /\ find_one(db[ENDPOINTS[ep].collection], CurrentId) = None
                          THEN Some(CurrentId) ELSE None])
    /\ pc' = "done"
    /\ exit_code' \in {130, 137}
    /\ UNCHANGED <<db, now, BACKFILL_CONFIG, skip_existing, profile, down, saves, peer,
                   script, token, Authorization, mainVars, dateVars, fetchVars, histVars, backoffs, rested,
                   summary, writers>>

NextInterrupted ==
    \/ Invoke("daily")
    \/ StartUp
    \/ QueryDaily
    \/ BackfillStep
    \/ Terminate

InitInterrupted == InitWith({"daily"}, 1..NumDates, {{}, {"standard"}})
SpecInterrupted == InitInterrupted /\ [][NextInterrupted]_vars

(***************************************************************************)
(* Two invocations of the batch backfill at the same time, over the same   *)
(* range and the same database. The variables of the module are those of   *)
(* the process that takes the next step; peer holds those of the other.    *)
(***************************************************************************)
\* The operating system lets the other process take the next steps.
Switch ==
    /\ peer.pc # "done"
    /\ peer' = [script |-> script, pc |-> pc, exit_code |-> exit_code, token |-> token, Authorization |-> Authorization,
                missing_dates |-> missing_dates, dates_to_process |-> dates_to_process,
                i |-> i, processed |-> processed, successful |-> successful,
                failed |-> failed, missing_endpoints |-> missing_endpoints,
                ep |-> ep, attempt |-> attempt, success_count |-> success_count,
                data |-> data, fetched |-> fetched, requests |-> requests,
                fetchok |-> fetchok,
                wrote |-> wrote, backoffs |-> backoffs, rested |-> rested,
                summary |-> summary]
    /\ script' = peer.script
    /\ pc' = peer.pc
    /\ exit_code' = peer.exit_code
    /\ token' = peer.token
    /\ Authorization' = peer.Authorization
    /\ missing_dates' = peer.missing_dates
    /\ dates_to_process' = peer.dates_to_process
    /\ i' = peer.i
    /\ processed' = peer.processed
    /\ successful' = peer.successful
    /\ failed' = peer.failed
    /\ missing_endpoints' = peer.missing_endpoints
    /\ ep' = peer.ep
    /\ attempt' = peer.attempt
    /\ success_count' = peer.success_count
    /\ data' = peer.data
    /\ fetched' = peer.fetched
    /\ requests' = peer.requests
    /\ fetchok' = peer.fetchok
    /\ wrote' = peer.wrote
    /\ backoffs' = peer.backoffs
    /\ rested' = peer.rested
    /\ summary' = peer.summary
    /\ UNCHANGED <<db, now, BACKFILL_CONFIG, skip_existing, profile, down, saves,
                   missing_months, fetchVars, runs, faults, renew_failed, skipped, interrupted, writers>>

\* Each of the two processes runs the script once.
NextConcurrent ==
    \/ pc = "idle" /\ Invoke("daily")
    \/ StartUp
    \/ QueryDaily
    \/ BackfillStep
    \/ Switch

InitConcurrent == InitWith({"daily"}, {1}, {{}})
SpecConcurrent == InitConcurrent /\ [][NextConcurrent]_vars

(***************************************************************************)
(* The writers of the store, called one after another: save_data of the    *)
(* automatic fetch, save_invoices of the monthly and of the by-branch      *)
(* fetchers, save_salesman_invoices of the by-salesman fetcher.            *)
(***************************************************************************)
\* row.get(key, default) of a dict
get(row, key, default) == IF key \in DOMAIN row THEN row[key] ELSE default

\* sum(row.get(key, 0) for row in rows)
RECURSIVE sum_of(_, _)
sum_of(rows, key) ==
    IF rows = <<>> THEN 0 ELSE get(Head(rows), key, 0) + sum_of(Tail(rows), key)

\* MONTH_NAMES of fetch_invoices_by_salesman.py
MONTH_NAMES ==
    <<"Enero", "Febrero", "Marzo", "Abril", "Mayo", "Junio", "Julio", "Agosto",
      "Septiembre", "Octubre", "Noviembre", "Diciembre">>

\* month_names of fetch_invoices_by_branch.py
month_names ==
    <<"enero", "febrero", "marzo", "abril", "mayo", "junio", "julio", "agosto",
      "septiembre", "octubre", "noviembre", "diciembre">>

\* The rows the by-branch endpoint can answer with for a month
BranchPayloads ==
    {<<[branch |-> "Centro", net |-> 10, margin |-> 5, discounts |-> 0,
        marginPercentage |-> 50, discountsPercentage |-> 0]>>,
     <<[net |-> 20, margin |-> 5, discounts |-> 0,
        marginPercentage |-> 25, discountsPercentage |-> 0],
       [branch |-> "Norte", net |-> 10, margin |-> 5, discounts |-> 0,
        marginPercentage |-> 75, discountsPercentage |-> 0]>>}

\* save_invoices of the by-branch fetcher: the document it builds. The averages
\* are float divisions; the rows explored make them whole numbers.
BranchDocument(month_key, date_from, date_to, branches, utcnow) ==
    LET cleaned_branches ==
            [k \in 1..Len(branches) |->
                IF "branch" \in DOMAIN branches[k] THEN branches[k]
                ELSE [f \in DOMAIN branches[k] \cup {"branch"} |->
                         IF f = "branch" THEN "Sin Sucursal" ELSE branches[k][f]]]
        n == Len(cleaned_branches)
    IN  [month |-> month_key, year |-> month_key[1], monthNumber |-> month_key[2],
         monthName |-> month_names[month_key[2]],
         startDate |-> date_from, endDate |-> date_to,
         branches |-> cleaned_branches,
         totalNet |-> sum_of(cleaned_branches, "net"),
         totalMargin |-> sum_of(cleaned_branches, "margin"),
         totalDiscounts |-> sum_of(cleaned_branches, "discounts"),
         avgMarginPercentage |->
             IF n > 0 THEN sum_of(cleaned_branches, "marginPercentage") \div n ELSE 0,
         avgDiscountPercentage |->
             IF n > 0 THEN sum_of(cleaned_branches, "discountsPercentage") \div n ELSE 0,
         branchCount |-> n,
         insertedAt |-> utcnow]

\* MongoDBClient.save_invoices of the by-branch fetcher, successful path
save_invoices_by_branch(database, month_key, branches, utcnow) ==
    [database EXCEPT !["invoices_by_branch"] =
        update_one_set(@, month_key,
                       BranchDocument(month_key,
                                      <<month_key[1], month_key[2], 1>>,
                                      <<month_key[1], month_key[2],
                                        monthrange(month_key[1], month_key[2])>>,
                                      branches, utcnow),
                       utcnow)]

\* The rows the by-salesman endpoint can answer with for a month: a salesman
\* with sales, the same salesman without sales (with and without the percentage
\* keys), and sales with no salesman assigned
SalesmanPayloads ==
    {<<[salesmanId |-> 7, salesmanName |-> "Ana", net |-> 10, margin |-> 5]>>,
     <<[salesmanId |-> 7, salesmanName |-> "Ana", net |-> 0, margin |-> 0]>>,
     <<[salesmanId |-> 7, salesmanName |-> "Ana", net |-> 0, margin |-> 0,
        netPercentage |-> 0, marginPercentage |-> 0]>>,
     <<[net |-> 10, margin |-> 10, netPercentage |-> 100, marginPercentage |-> 100]>>}

\* save_salesman_invoices: salesman_copy, the document built from one row. The
\* percentages are float divisions; the rows explored make them whole numbers.
salesman_copy(salesman, total_net, month_key, utcnow) ==
    LET unassigned == \/ "salesmanId" \notin DOMAIN salesman
                      \/ "salesmanName" \notin DOMAIN salesman
        computeNet == get(salesman, "netPercentage", 0) = 0 /\ total_net > 0
        computeMargin == get(salesman, "marginPercentage", 0) = 0
                         /\ get(salesman, "net", 0) > 0
        keys == DOMAIN salesman
                \cup (IF unassigned THEN {"salesmanId", "salesmanName"} ELSE {})
                \cup (IF computeNet THEN {"netPercentage"} ELSE {})
                \cup (IF computeMargin THEN {"marginPercentage"} ELSE {})
                \cup {"month", "year", "monthNumber", "monthName", "insertedAt", "rawData"}
    IN  [f \in keys |->
            CASE f = "salesmanName" /\ unassigned -> "Sin Vendedor Asignado"
              [] f = "salesmanId" /\ "salesmanId" \notin DOMAIN salesman -> 0
              [] f = "netPercentage" /\ computeNet ->
                     (get(salesman, "net", 0) * 100) \div total_net
              [] f = "marginPercentage" /\ computeMargin ->
                     (get(salesman, "margin", 0) * 100) \div salesman["net"]
              [] f = "month" -> month_key
              [] f = "year" -> month_key[1]
              [] f = "monthNumber" -> month_key[2]
              [] f = "monthName" -> MONTH_NAMES[month_key[2]]
              [] f = "insertedAt" -> utcnow
              [] f = "rawData" -> salesman
              [] OTHER -> salesman[f]]

\* save_salesman_invoices: the loop over salesmen_data; for each row find_one by
\* (month, salesmanId), then skip, update_one($set) or insert_one
RECURSIVE save_salesman_rows(_, _, _, _, _, _)
save_salesman_rows(coll, rows, total_net, month_key, skip, utcnow) ==
    IF rows = <<>> THEN coll
    ELSE LET copy == salesman_copy(Head(rows), total_net, month_key, utcnow)
             hit == {d \in coll : d.month = month_key /\ d.salesmanId = copy.salesmanId}
             next == IF hit # {}
                     THEN IF skip THEN coll
                          ELSE LET existing == CHOOSE d \in hit : TRUE
                               IN  (coll \ {existing}) \cup
                                   {[f \in DOMAIN existing \cup DOMAIN copy |->
                                        IF f \in DOMAIN copy THEN copy[f]
                                        ELSE existing[f]]}
                     ELSE coll \cup
                          {[f \in DOMAIN copy \cup {"_id"} |->
                               IF f = "_id"
                               THEN <<"ObjectId", month_key, copy.salesmanId, utcnow>>
                               ELSE copy[f]]}
         IN  save_salesman_rows(next, Tail(rows), total_net, month_key, skip, utcnow)

\* MongoDBHandler.save_salesman_invoices
save_salesman_invoices(database, salesmen_data, month_key, skip, utcnow) ==
    [database EXCEPT !["invoices_by_salesman"] =
        save_salesman_rows(@, salesmen_data, sum_of(salesmen_data, "net"),
                           month_key, skip, utcnow)]

\* The collection each invoice fetcher writes
InvoiceCollection(s) ==
    CASE s = "invoices" -> "invoices_by_month"
      [] s = "branch"   -> "invoices_by_branch"
      [] s = "salesman" -> "invoices_by_salesman"

\* One call of a writer of the invoice collections by script s
SaveInvoiceData(s, month_key, payload) ==
    /\ pc = "idle"
    /\ s \in profile
    /\ Len(saves) < MaxSaves
    /\ db' = CASE s = "invoices" -> save_invoices(db, month_key, payload, now)
               [] s = "branch"   -> save_invoices_by_branch(db, month_key, payload, now)
               [] s = "salesman" -> save_salesman_invoices(db, payload, month_key,
                                                           skip_existing, now)
    /\ saves' = Append(saves, SaveCall(s, InvoiceCollection(s), payload, s,
                                       month_key, now))
    /\ now' = now + 1
    /\ UNCHANGED <<BACKFILL_CONFIG, skip_existing, profile, down, script, pc,
                   exit_code, token, Authorization, mainVars, dateVars, fetchVars, histVars, peer,
                   interrupted, writers, backoffs, rested, summary>>

NextWriters ==
    \/ \E e \in 1..Len(ENDPOINTS), p \in Payloads :
          SaveData("automatic", ENDPOINTS[e], start_date, p)
    \/ \E m \in Range(InvoiceMonths) :
          SaveInvoiceData("invoices", m, <<invoice_row(m)>>)
    \/ \E m \in Range(InvoiceMonths), p \in BranchPayloads :
          SaveInvoiceData("branch", m, p)
    \/ \E m \in Range(InvoiceMonths), p \in SalesmanPayloads :
          SaveInvoiceData("salesman", m, p)

InitWriters == InitWith({"automatic", "invoices", "branch", "salesman"}, {NumDates}, {{}})
SpecWriters == InitWriters /\ [][NextWriters]_vars

(***************************************************************************)
(* Runs of the invoices-by-salesman fetcher in two processes at the same   *)
(* time: save_salesman_invoices step by step, each find_one and each write *)
(* being one operation on the store.                                       *)
(***************************************************************************)
\* collection.find_one({'month': month_str, 'salesmanId': salesmanId})
find_one_salesman(coll, month_key, salesmanId) ==
    LET hit == {d \in coll : d.month = month_key /\ d.salesmanId = salesmanId}
    IN  IF hit = {} THEN None ELSE Some(CHOOSE d \in hit : TRUE)

\* "if existing:" skip or update_one({'_id': existing['_id']}, {'$set': copy}),
\* "else:" insert_one(copy)
write_salesman(coll, copy, existing, skip, utcnow) ==
    IF existing # None
    THEN IF skip THEN coll
         ELSE LET hit == {d \in coll : d._id = (CHOOSE e \in existing : TRUE)._id}
              IN  IF hit = {} THEN coll
                  ELSE LET old == CHOOSE d \in hit : TRUE
                       IN  (coll \ {old}) \cup
                           {[f \in DOMAIN old \cup DOMAIN copy |->
                                IF f \in DOMAIN copy THEN copy[f] ELSE old[f]]}
    ELSE coll \cup {[f \in DOMAIN copy \cup {"_id"} |->
                        IF f = "_id"
                        THEN <<"ObjectId", copy.month, copy.salesmanId, utcnow>>
                        ELSE copy[f]]}

\* A process enters save_salesman_invoices(salesmen_data, year, month, skip_existing)
SalesmanCall(p, month_key, salesmen_data) ==
    /\ pc = "idle"
    /\ "salesman" \in profile
    /\ writers[p].at = "idle"
    /\ Len(saves) < MaxCalls
    /\ writers' = [writers EXCEPT ![p] =
                      [at |-> "find", rows |-> salesmen_data, month |-> month_key,
                       total_net |-> sum_of(salesmen_data, "net"),
                       salesman_copy |-> None, existing |-> None]]
    /\ saves' = Append(saves, SaveCall("salesman", "invoices_by_salesman",
                                       salesmen_data, "salesman", month_key, now))
    /\ UNCHANGED <<db, now, BACKFILL_CONFIG, skip_existing, profile, down, script, pc,
                   exit_code, token, Authorization, mainVars, dateVars, fetchVars, histVars, peer,
                   interrupted, backoffs, rested, summary>>

\* Head of "for salesman in salesmen_data": the copy is built and find_one is
\* asked for a record of its (month, salesmanId); after the last row the call returns
SalesmanFindOne(p) ==
    /\ writers[p].at = "find"
    /\ IF writers[p].rows = <<>>
       THEN writers' = [writers EXCEPT ![p] = NoCall]
       ELSE LET copy == salesman_copy(Head(writers[p].rows), writers[p].total_net,
                                      writers[p].month, now)
            IN  writers' = [writers EXCEPT
                              ![p].at = "write",
                              ![p].salesman_copy = Some(copy),
                              ![p].existing =
                                  find_one_salesman(db["invoices_by_salesman"],
                                                    writers[p].month, copy.salesmanId)]
    /\ UNCHANGED <<db, now, BACKFILL_CONFIG, skip_existing, profile, down, script, pc,
                   exit_code, token, Authorization, mainVars, dateVars, fetchVars, histVars, saves, peer,
                   interrupted, backoffs, rested, summary>>

\* The branch taken on "existing": continue, update_one or insert_one
SalesmanWrite(p) ==
    /\ writers[p].at = "write"
    /\ db' = [db EXCEPT !["invoices_by_salesman"] =
                 write_salesman(@, CHOOSE c \in writers[p].salesman_copy : TRUE,
                                writers[p].existing, skip_existing, now)]
    /\ now' = now + 1
    /\ writers' = [writers EXCEPT ![p].at = "find",
                                  ![p].rows = Tail(@),
                                  ![p].salesman_copy = None,
                                  ![p].existing = None]
    /\ UNCHANGED <<BACKFILL_CONFIG, skip_existing, profile, down, script, pc,
                   exit_code, token, Authorization, mainVars, dateVars, fetchVars, histVars, saves, peer,
                   interrupted, backoffs, rested, summary>>

NextSalesmen ==
    \/ \E p \in Processes, m \in Range(InvoiceMonths), rows \in SalesmanPayloads :
          SalesmanCall(p, m, rows)
    \/ \E p \in Processes : SalesmanFindOne(p)
    \/ \E p \in Processes : SalesmanWrite(p)

InitSalesmen == InitWith({"salesman"}, {NumDates}, {{}})
SpecSalesmen == InitSalesmen /\ [][NextSalesmen]_vars

(***************************************************************************)
(* A run of the batch backfill or of the invoices fetcher while another     *)
(* process (a manual fetch, another invoices run) writes to the same store. *)
(***************************************************************************)
\* save_data of a manual fetch for one unit, by another process
ExternalSaveData(endpoint, date_str) ==
    /\ "daily" \in profile
    /\ pc \notin {"idle", "done"}
    /\ Len(saves) < MaxExternal
    /\ db' = save_data(db, "manual", endpoint.collection,
                       upstream(date_str, endpoint.name), endpoint.name, date_str, now)
    /\ saves' = Append(saves, SaveCall("manual", endpoint.collection,
                                       upstream(date_str, endpoint.name),
                                       endpoint.name, date_str, now))
    /\ UNCHANGED <<now, BACKFILL_CONFIG, skip_existing, profile, down, script, pc,
                   exit_code, token, Authorization, mainVars, dateVars, fetchVars, histVars, peer,
                   interrupted, writers, backoffs, rested, summary>>

\* save_invoices of another run of the invoices fetcher for one month
ExternalSaveInvoices(month_key) ==
    /\ "invoices" \in profile
    /\ pc \notin {"idle", "done"}
    /\ Len(saves) < MaxExternal
    /\ db' = save_invoices(db, month_key, <<invoice_row(month_key)>>, now)
    /\ saves' = Append(saves, SaveCall("invoices", "invoices_by_month",
                                       <<invoice_row(month_key)>>, "byMonth",
                                       month_key, now))
    /\ UNCHANGED <<now, BACKFILL_CONFIG, skip_existing, profile, down, script, pc,
                   exit_code, token, Authorization, mainVars, dateVars, fetchVars, histVars, peer,
                   interrupted, writers, backoffs, rested, summary>>

NextExternal ==
    \/ Invoke("daily")
    \/ Invoke("invoices")
    \/ StartUp
    \/ QueryDaily
    \/ BackfillStep
    \/ InvoiceStep
    \/ \E e \in 1..Len(ENDPOINTS), d \in AllDates : ExternalSaveData(ENDPOINTS[e], d)
    \/ \E m \in Range(InvoiceMonths) : ExternalSaveInvoices(m)

InitExternal ==
    \/ InitWith({"daily"}, {NumDates}, {{}})
    \/ InitWith({"invoices"}, {NumDates}, {{}})
SpecExternal == InitExternal /\ [][NextExternal]_vars

(***************************************************************************)
(* The fetchers as functions of what session.get returns: fetch_balance_   *)
(* sheet and fetch_invoices_by_month called with any response, and         *)
(* save_invoices called with what the invoices fetcher returned.           *)
(***************************************************************************)
\* The objects the upstream API can put in a body
BodyRows == {invoice_row(m) : m \in Range(InvoiceMonths)}

\* Response bodies: a JSON array of objects in some order, a single JSON
\* object (items holds that one object), or text that is not JSON
Bodies ==
    {[json |-> "array", items |-> rows] :
        rows \in {<<>>} \cup {<<a>> : a \in BodyRows}
                       \cup {<<a, b>> : a \in BodyRows, b \in BodyRows}}
    \cup {[json |-> "object", items |-> <<a>>] : a \in BodyRows}
    \cup {[json |-> "invalid", items |-> <<>>]}

\* What session.get(url, params=params, timeout=...) ends with: a timeout, or
\* a response with a status code and a body
HttpResponses ==
    {[outcome |-> "timeout", status_code |-> 0, body |-> [json |-> "invalid", items |-> <<>>]],
     [outcome |-> "response", status_code |-> 500,
      body |-> [json |-> "invalid", items |-> <<>>]]}
    \cup {[outcome |-> "response", status_code |-> 200, body |-> b] : b \in Bodies}

\* response.json(): a list for an array, a dict for an object (items holds the
\* dict), None here when it raises
response_json(body) ==
    CASE body.json = "array"  -> Some([type |-> "list", items |-> body.items])
      [] body.json = "object" -> Some([type |-> "dict", items |-> body.items])
      [] OTHER                -> None

\* LaudusAPIClient.fetch_balance_sheet: None on a timeout, on an HTTP error
\* (raise_for_status) and on any other exception; otherwise "data =
\* response.json()", "return data"
fetch_balance_sheet(response) ==
    IF response.outcome = "timeout" THEN None
    ELSE IF response.status_code >= 400 THEN None
    ELSE response_json(response.body)

\* LaudusAPIClient.fetch_invoices_by_month: None on a timeout, on a
\* RequestException and on any other exception; otherwise "data =
\* response.json()", a log line that depends on isinstance(data, list), and
\* "return data"
fetch_invoices_by_month(response) ==
    IF response.outcome = "timeout" THEN None
    ELSE IF response.status_code >= 400 THEN None
    ELSE response_json(response.body)

\* save_invoices: "if not isinstance(data, list) or len(data) == 0: return False"
save_invoices_accepts(payload) == payload.type = "list" /\ Len(payload.items) > 0

\* The entry the history keeps of one call of a fetcher
FetcherCall(fetcher, response, returned) ==
    [fetcher |-> fetcher, response |-> response, returned |-> returned]

\* api_client.fetch_balance_sheet(endpoint, date_str) when session.get ends
\* with the response
CallFetchBalanceSheet(response) ==
    /\ pc = "idle"
    /\ "daily" \in profile
    /\ Len(saves) < MaxCalls
    /\ data' = fetch_balance_sheet(response)
    /\ saves' = Append(saves, FetcherCall("fetch_balance_sheet", response,
                                          fetch_balance_sheet(response)))
    /\ UNCHANGED <<db, now, BACKFILL_CONFIG, skip_existing, profile, down, script, pc,
                   exit_code, token, Authorization, mainVars, missing_endpoints, ep, attempt,
                   success_count, fetchVars, histVars, peer, interrupted, writers,
                   backoffs, rested, summary>>

\* api_client.fetch_invoices_by_month(year, month) when session.get ends with
\* the response
CallFetchInvoicesByMonth(response) ==
    /\ pc = "idle"
    /\ "invoices" \in profile
    /\ Len(saves) < MaxCalls
    /\ data' = fetch_invoices_by_month(response)
    /\ saves' = Append(saves, FetcherCall("fetch_invoices_by_month", response,
                                          fetch_invoices_by_month(response)))
    /\ UNCHANGED <<db, now, BACKFILL_CONFIG, skip_existing, profile, down, script, pc,
                   exit_code, token, Authorization, mainVars, missing_endpoints, ep, attempt,
                   success_count, fetchVars, histVars, peer, interrupted, writers,
                   backoffs, rested, summary>>

\* db_client.save_invoices(year, month, data) with the data the invoices
\* fetcher has just returned ("if data is None" the caller retries instead)
CallSaveInvoices(month_key) ==
    /\ pc = "idle"
    /\ data # None
    /\ saves # <<>>
    /\ saves[Len(saves)].fetcher = "fetch_invoices_by_month"
    /\ LET payload == CHOOSE p \in data : TRUE
       IN  db' = IF save_invoices_accepts(payload)
                 THEN save_invoices(db, month_key, payload.items, now)
                 ELSE db
    /\ data' = None
    /\ now' = now + 1
    /\ UNCHANGED <<BACKFILL_CONFIG, skip_existing, profile, down, script, pc,
                   exit_code, token, Authorization, mainVars, missing_endpoints, ep, attempt,
                   success_count, fetchVars, histVars, saves, peer, interrupted, writers,
                   backoffs, rested, summary>>

NextPayload ==
    \/ \E response \in HttpResponses : CallFetchBalanceSheet(response)
    \/ \E response \in HttpResponses : CallFetchInvoicesByMonth(response)
    \/ \E m \in Range(InvoiceMonths) : CallSaveInvoices(m)

InitPayload == InitWith({"daily", "invoices"}, {NumDates}, {{}})
SpecPayload == InitPayload /\ [][NextPayload]_vars

(***************************************************************************)
(* The claims.                                                             *)
(***************************************************************************)
\* The records a collection holds under a natural key
RecordsUnder(collection_name, doc_id) == {d \in db[collection_name] : d._id = doc_id}

\* Two calls persist the same (date, report kind, payload)
SameTriple(a, b) == a.date = b.date /\ a.endpoint = b.endpoint /\ a.data = b.data

\* Call k is the last one made under its natural key
LastUnderKey(k) ==
    \A m \in (k + 1)..Len(saves) :
        DocId(saves[m].date, saves[m].endpoint) # DocId(saves[k].date, saves[k].endpoint)

\* C1: when the same (date, report kind, payload) has been persisted twice with
\* save_data, by whichever scripts, and nothing was persisted under that key
\* since, the collection holds exactly one record under "{date}-{kind}", and it
\* carries the insertedAt and the loadSource of the second call.
C1_SecondWriteSupersedes ==
    \A j \in 1..Len(saves), k \in 1..Len(saves) :
        (j < k /\ SameTriple(saves[j], saves[k]) /\ LastUnderKey(k))
        => LET hit == RecordsUnder(saves[k].collection,
                                   DocId(saves[k].date, saves[k].endpoint))
           IN  /\ Cardinality(hit) = 1
               /\ \A d \in hit : /\ d.insertedAt = saves[k].at
                                 /\ d.loadSource = loadSource(saves[k].script)
                                 /\ d.data = saves[k].data
                                 /\ d.recordCount = Len(saves[k].data)

\* Reached: the same triple persisted by the batch backfill and then, later, by
\* the automatic fetch, with a call under another key in between.
C1_Witness ==
    /\ Len(saves) = 3
    /\ SameTriple(saves[1], saves[3])
    /\ saves[1].script = "daily" /\ saves[3].script = "automatic"
    /\ saves[1].data # <<>>
    /\ DocId(saves[2].date, saves[2].endpoint) # DocId(saves[1].date, saves[1].endpoint)

\* C2: in every state the balance-sheet scripts can reach, run one after another
\* in any order against one store, each collection holds at most one record per
\* natural key, and never more records than there are keys of its report kind.
C2_OneRecordPerKey ==
    \A c \in Collections :
        /\ \A doc_id \in DocIds : Cardinality(RecordsUnder(c, doc_id)) <= 1
        /\ \A d \in db[c] : d._id \in DocIds
        /\ Cardinality(db[c]) <= Cardinality(AllDates)

\* Reached: a fault-free automatic run loaded the three kinds of the target date
\* (one of its records is still there), and the manual run after it has just
\* persisted one of these kinds again.
C2_Witness ==
    /\ runs = 2 /\ script = "manual" /\ FaultCount = 0
    /\ \E u \in wrote, c \in Collections :
         /\ \E d \in RecordsUnder(c, u) : d.loadSource = "manual" /\ d.insertedAt = now
         /\ \E c2 \in Collections \ {c} :
              \E d2 \in db[c2] : /\ d2.loadSource = "automatic"
                                 /\ d2.insertedAt < now
                                 /\ d2.date = u[1]

\* The records under a key that an earlier invocation left (insertedAt is the
\* clock of the invocation that wrote the record)
RecordsBefore(doc_id) ==
    UNION {{d \in db[c] : d._id = doc_id /\ d.insertedAt < now} : c \in Collections}

\* The records under a key, in whichever collection
Records(doc_id) == UNION {RecordsUnder(c, doc_id) : c \in Collections}

\* The batch loop is running (between the batch selection and the summary)
InBatch == pc \in {"loop", "endpoint", "fetch", "save"}

\* C3: a date the completeness query of this invocation reported missing had
\* some report kind without a record when it was queried, and a report kind
\* that process_date's check reported missing had no record, whether or not a
\* store lookup failed.
C3_PresentNeverReportedMissing ==
    /\ InBatch /\ script = "daily"
       => \A k \in 1..Len(missing_dates) :
             \E n \in EndpointNames : RecordsBefore(DocId(missing_dates[k], n)) = {}
    /\ pc \in {"endpoint", "fetch", "save"}
       => \A k \in 1..Len(missing_endpoints) :
             RecordsBefore(DocId(dates_to_process[i], missing_endpoints[k])) = {}

\* The dates of the range with a report kind that has no record, oldest first
DatesWithAbsentKind ==
    SelectSeq(generate_date_range(BACKFILL_CONFIG.start_date, BACKFILL_CONFIG.end_date),
              LAMBDA d : \E n \in EndpointNames : Records(DocId(d, n)) = {})

\* C4: right after get_missing_dates, its result is exactly the dates of the
\* range with at least one report kind absent from the store; right after
\* check_date_exists in process_date, its result is exactly the kinds absent
\* for that date; and a run that found nothing missing leaves a store in which
\* every unit of the range has a record.
C4_ReportsExactlyAbsent ==
    /\ (script = "daily" /\ pc = "loop" /\ i = 1)
       => missing_dates = DatesWithAbsentKind
    /\ (script = "daily" /\ pc = "endpoint" /\ ep = 1)
       => Range(missing_endpoints) =
              {n \in EndpointNames : Records(DocId(dates_to_process[i], n)) = {}}
    /\ (script = "daily" /\ pc = "done" /\ exit_code = 0 /\ dates_to_process = <<>>)
       => DatesWithAbsentKind = <<>>

\* The dates with a fetch call in this invocation
DatesFetched == {d \in AllDates : \E n \in EndpointNames : fetched[DocId(d, n)] > 0}

\* C5: in one invocation of a backfill, batch or month-per-run, the dates
\* selected for processing and the dates with a fetch call are never more than
\* the configured ceiling max_dates_per_run.
C5_BatchWithinCeiling ==
    script \in {"daily", "monthly"}
    => /\ Len(dates_to_process) <= BACKFILL_CONFIG.max_dates_per_run
       /\ Cardinality(DatesFetched) <= BACKFILL_CONFIG.max_dates_per_run

\* C8: in the backfill, the unit being fetched or saved has no record in the
\* store: a present unit is never fetched nor written again.
C8_PresentUnitNotFetched ==
    (script \in {"daily", "monthly"} /\ pc \in {"fetch", "save"})
    => Records(CurrentId) = {}

\* No fetch, persist, authentication or start-up failure has happened so far
FetchAndPersistAlwaysSucceed ==
    /\ down = {}
    /\ \A k \in FaultKinds \ {"lookup"} : faults[k] = 0

\* The dates of the range whose three report kinds have a record
CompleteDates == {d \in AllDates : \A n \in EndpointNames : Records(DocId(d, n)) # {}}

\* C9: with fetch and persist always succeeding, from an empty store (M =
\* NumDates missing dates) and a ceiling of N dates, the r-th invocation of the
\* batch backfill ends with min(M, r * N) complete dates, and an invocation
\* started after ceil(M / N) earlier ones finds nothing missing.
C9_ConvergesInCeilRuns ==
    (script = "daily" /\ FetchAndPersistAlwaysSucceed)
    => /\ pc = "done"
          => Cardinality(CompleteDates)
                 = Min(NumDates, runs * BACKFILL_CONFIG.max_dates_per_run)
       /\ (runs - 1) * BACKFILL_CONFIG.max_dates_per_run >= NumDates
          => ~InBatch

\* The units whose fetch fails on every attempt
DownUnits == {u \in Units : u[2] \in down}

\* The run went through its loop over the units and exited after it
RanToEnd ==
    /\ pc = "done"
    /\ dates_to_process # <<>> \/ selected_endpoints # <<>> \/ months_to_fetch # <<>>

\* The units of the date (or month) the run was asked to load
Selected(u) ==
    CASE script \in {"daily", "monthly"} -> u[1] \in Range(dates_to_process)
      [] script \in {"automatic", "manual"} ->
            u[1] \in target_date /\ u[2] \in DOMAIN completed
      [] script = "invoices" -> u[1] \in Range(months_to_fetch)
      [] OTHER -> FALSE

\* C6, as the spec states it: when the run has ended, a unit of the run whose
\* fetch failed on every attempt has had exactly max_retries fetch attempts.
C6_ExactlyMaxRetries ==
    RanToEnd => \A u \in DownUnits :
                    (Selected(u) /\ fetched[u] > 0) => fetched[u] = max_retries(script)

\* C6, amended: a unit whose fetch fails on every attempt never has more than
\* max_retries fetch attempts.  In the backfills and the invoices fetcher every
\* such unit of a processed date or month has exactly max_retries, the units
\* after it are attempted, and the run exits after its loop (status 0 in the
\* backfills, 1 in the invoices fetcher).  In the automatic and manual fetch it
\* has one attempt per round whose token renewal did not fail, max_retries minus
\* the failed renewals, and the run exits with status 1.
C6_RetryCeiling ==
    script # "none" =>
    /\ \A u \in DownUnits : fetched[u] <= max_retries(script)
    /\ (RanToEnd /\ script \in {"daily", "monthly"}) =>
          /\ exit_code = 0
          /\ processed + renew_failed = Len(dates_to_process)
          /\ \A u \in DownUnits : fetched[u] \in {0, max_retries(script)}
          /\ Cardinality({u \in DownUnits : fetched[u] = max_retries(script)}) =
                 processed * Cardinality(down)
          /\ \A u \in DownUnits : \A n \in EndpointNames \ down :
                fetched[u] > 0 =>
                    fetched[DocId(u[1], n)] > 0 \/ Records(DocId(u[1], n)) # {}
    /\ (RanToEnd /\ script \in {"automatic", "manual"}) =>
          \A u \in DownUnits :
              Selected(u) => /\ fetched[u] = max_retries(script) - renew_failed
                             /\ attempt = max_retries(script)
                             /\ exit_code = 1
    /\ (RanToEnd /\ script = "invoices") =>
          \A u \in DownUnits :
              Selected(u) => /\ fetched[u] = max_retries(script)
                             /\ error_count = Len(months_to_fetch)
                             /\ exit_code = 1

\* Reached: an automatic run that ended after two failed token renewals, with
\* the endpoint that never answers fetched in the 58 other rounds.
C6_Witness ==
    /\ RanToEnd /\ script = "automatic" /\ renew_failed = 2
    /\ \E u \in DownUnits : Selected(u) /\ fetched[u] = max_retries(script) - 2

\* The endpoints before position ep that process_date has counted in success_count
CountedBefore ==
    {k \in 1..(ep - 1) :
        \/ ENDPOINTS[k].name \notin Range(missing_endpoints)
        \/ DocId(dates_to_process[i], ENDPOINTS[k].name) \in wrote}

\* The record this invocation wrote for a unit: the payload fetched, stamped now
WrittenNow(u) ==
    {d \in Records(u) : d.insertedAt = now /\ d.data = upstream(u[1], u[2])
                        /\ d.loadSource = loadSource(script)}

\* C7: process_date counts in success_count exactly the kinds it found present
\* and the kinds it wrote, and the automatic and manual fetch flag completed
\* exactly the kinds they wrote; a unit is written only after a fetch of this
\* invocation succeeded, within max_retries attempts, and its record holds the
\* payload fetched; for any other unit no record is written in this invocation;
\* and every unit without a record is reported by the next completeness query.
C7_CompleteOnlyIfFetchedAndPersisted ==
    script \in {"daily", "monthly", "automatic", "manual"} =>
    /\ (script \in {"daily", "monthly"} /\ pc \in {"endpoint", "fetch", "save"})
       => success_count = Cardinality(CountedBefore)
    /\ (script \in {"automatic", "manual"} /\ target_date # None)
       => \A n \in DOMAIN completed :
             completed[n] <=> DocId(CHOOSE d \in target_date : TRUE, n) \in wrote
    /\ \A u \in wrote : /\ u \in fetchok
                        /\ fetched[u] \in 1..max_retries(script)
                        /\ WrittenNow(u) # {}
    /\ \A u \in DocIds \ wrote : \A d \in Records(u) : d.insertedAt < now
    /\ (script = "daily" /\ InBatch)
       => \A u \in DocIds : Records(u) = {} => u[1] \in Range(missing_dates)

\* Reached: the batch backfill ended a run in which one unit had max_retries
\* failed fetches and has no record, while another unit was written by its
\* second attempt, after a fetch whose persist failed.
C7_Witness ==
    /\ script = "daily" /\ pc = "done"
    /\ \E u \in DownUnits \ wrote :
         fetched[u] = max_retries(script) /\ Records(u) = {}
    /\ \E v \in wrote : fetched[v] = 2 /\ faults["save"] = 1 /\ faults["fetch"] = 0

\* The unit process_date handled just before the endpoint at position ep
PreviousId == DocId(dates_to_process[i], ENDPOINTS[ep - 1].name)

\* C10: in process_date the attempt number equals the fetch calls made for the
\* unit; the unit written by attempt k (k <= max_retries) has had exactly k
\* fetch calls and its record is in the store in this same invocation; and a
\* unit already written is never fetched or saved again in the invocation.
C10_PersistedAfterKAttempts ==
    script \in {"daily", "monthly"} =>
    /\ pc = "fetch" => /\ fetched[CurrentId] = attempt - 1
                       /\ attempt <= max_retries(script)
                       /\ CurrentId \notin wrote
    /\ pc = "save" => /\ fetched[CurrentId] = attempt
                      /\ attempt <= max_retries(script)
                      /\ CurrentId \notin wrote
    /\ (pc = "endpoint" /\ ep > 1 /\ PreviousId \in wrote)
       => /\ fetched[PreviousId] = attempt
          /\ attempt <= max_retries(script)
          /\ WrittenNow(PreviousId) # {}
    /\ \A u \in wrote : fetched[u] \in 1..max_retries(script) /\ WrittenNow(u) # {}

\* Reached: a unit written by the third attempt, after a failed fetch and a
\* failed persist.
C10_Witness ==
    /\ script = "daily" /\ pc = "endpoint" /\ ep > 1
    /\ PreviousId \in wrote
    /\ attempt = 3 /\ fetched[PreviousId] = 3
    /\ faults["fetch"] = 1 /\ faults["save"] = 1

\* The dates of the range whose report kinds that the upstream API serves all
\* have a record
DatesServedComplete ==
    {d \in AllDates : \A n \in EndpointNames \ down : Records(DocId(d, n)) # {}}

\* The natural keys with a record in a store
KeysOf(database) == {d._id : d \in UNION {database[c] : c \in Collections}}

\* C11: under repeated invocations of the batch backfill with no transient
\* failure, whatever endpoint never answers, the r-th invocation ends with the
\* units that can be fetched persisted for min(NumDates, r * ceiling) dates at
\* least, so that every such unit is persisted in the end.
C11_FetchableUnitsPersisted ==
    (script = "daily" /\ pc = "done" /\ FaultCount = 0)
    => Cardinality(DatesServedComplete)
           >= Min(NumDates, runs * BACKFILL_CONFIG.max_dates_per_run)

\* a is an earlier date than b
Older(a, b) == DateLeq(a, b) /\ a # b

\* A date with a report kind that has no record
Incomplete(d) == \E n \in EndpointNames : Records(DocId(d, n)) = {}

\* C12: while the batch backfill works on its batch, the batch is the first
\* dates of the missing set, in ascending order; every date of the batch is
\* older than every incomplete date left out of it; and the dates fetched so
\* far are the dates of the batch up to the current position.
C12_OldestFirst ==
    (script = "daily" /\ InBatch) =>
    /\ dates_to_process = SubSeq(missing_dates, 1, Len(dates_to_process))
    /\ \A j \in 1..Len(dates_to_process), k \in 1..Len(dates_to_process) :
          j < k => Older(dates_to_process[j], dates_to_process[k])
    /\ \A m \in AllDates \ Range(dates_to_process) :
          Incomplete(m) => \A k \in 1..Len(dates_to_process) :
                               Older(dates_to_process[k], m)
    /\ \A d \in DatesFetched :
          \E k \in 1..Len(dates_to_process) : k <= i /\ dates_to_process[k] = d

\* Reached: with the oldest date complete, a batch of one date that is being
\* fetched while a newer incomplete date is left for a later run.
C12_Witness ==
    /\ script = "daily" /\ pc = "fetch"
    /\ Len(dates_to_process) = 1
    /\ ~Incomplete(start_date)
    /\ Older(start_date, dates_to_process[1])
    /\ \E m \in AllDates \ Range(dates_to_process) : Incomplete(m)

\* The completeness query of a backfill over the configured range, when no
\* lookup raises
MissingUnits ==
    IF script = "daily"
    THEN get_missing_dates(db, BACKFILL_CONFIG.start_date, BACKFILL_CONFIG.end_date, {})
    ELSE get_missing_months(db, BACKFILL_CONFIG.start_date, BACKFILL_CONFIG.end_date, {})

\* C13: in the step of a backfill that runs the completeness query, batch or
\* month-per-run, a query that finds nothing missing ends the run; and a run
\* that ends at the query ends with exit code 0, had made no fetch and no save,
\* and leaves the store as it was.
C13_CompleteRangeExitsClean ==
    [][(pc = "query" /\ script \in {"daily", "monthly"}) =>
         /\ (MissingUnits = <<>> /\ faults' = faults) => pc' = "done"
         /\ pc' = "done" =>
              /\ exit_code' = 0
              /\ db' = db
              /\ fetched' = fetched /\ \A u \in Units : fetched[u] = 0
              /\ wrote' = wrote /\ wrote = {}
              /\ fetchok' = fetchok /\ fetchok = {}]_vars

\* Reached: a run of the month backfill that found every month of the range
\* complete and has ended.
C13_Witness ==
    /\ script = "monthly" /\ pc = "done" /\ exit_code = 0
    /\ token # None
    /\ missing_months = <<>> /\ dates_to_process = <<>>
    /\ \A d \in AllDates : ~Incomplete(d)
    /\ \A u \in Units : fetched[u] = 0

\* The documents save_data of the batch backfill can build for a collection
SavedDocuments(collection_name) ==
    {Document("daily", upstream(d, ENDPOINTS[k].name), ENDPOINTS[k].name, d, t) :
        <<k, d, t>> \in {x \in (1..Len(ENDPOINTS)) \X AllDates \X (1..now) :
                            ENDPOINTS[x[1]].collection = collection_name}}

\* C14: with two invocations of the batch backfill interleaved step by step
\* over one range and one store, a natural key never has two records, every
\* record is as a whole a document that one save_data call built, in the
\* collection of its report kind, and every unit either invocation saved has
\* its record.
C14_ConcurrentStoreSound ==
    /\ \A u \in DocIds : Cardinality(Records(u)) <= 1
    /\ \A c \in Collections : db[c] \subseteq SavedDocuments(c)
    /\ \A u \in wrote \cup peer.wrote : Records(u) # {}

\* Reached: both invocations have fetched and saved the same unit.
C14_Witness ==
    /\ pc = "done" /\ peer.pc = "done"
    /\ \E u \in DocIds :
          /\ fetched[u] > 0 /\ peer.fetched[u] > 0
          /\ u \in wrote /\ u \in peer.wrote
          /\ Cardinality(Records(u)) = 1

\* The unit that was in flight when the previous invocation was terminated
InFlightBefore ==
    IF interrupted # None /\ (CHOOSE x \in interrupted : TRUE).run = runs - 1
    THEN (CHOOSE x \in interrupted : TRUE).unit
    ELSE None

\* The records of the store are whole documents of save_data, one per key at most
StoreWhole ==
    /\ \A u \in DocIds : Cardinality(Records(u)) <= 1
    /\ \A c \in Collections : db[c] \subseteq SavedDocuments(c)

\* The invocation after a terminated one reports the date of the unit that was
\* in flight as missing
InFlightReportedMissing ==
    \A u \in InFlightBefore :
        /\ InBatch => u[1] \in Range(missing_dates)
        /\ (pc = "done" /\ exit_code = 0) => missing_dates # <<>>

\* The invocation after a terminated one, run to its end, has fetched the unit
\* that was in flight
InFlightAttemptedAgain ==
    \A u \in InFlightBefore : (pc = "done" /\ exit_code = 0) => fetched[u] > 0

\* C15: when an invocation of the batch backfill is terminated at any of its
\* steps, the store holds whole documents of finished saves only, and the next
\* invocation reports the date of the unit that was in flight as missing and,
\* run to its end, fetches that unit again.
C15_TerminationIsSafe ==
    /\ StoreWhole
    /\ InFlightReportedMissing
    /\ InFlightAttemptedAgain

\* The natural keys with a record: (date, report kind) of the balance-sheet
\* collections and the month of invoices_by_month
NaturalKeys(database) ==
    KeysOf(database) \cup {d.month : d \in database["invoices_by_month"]}

\* C16: no step of any sync script (batch backfill, month backfill, automatic,
\* manual, monthly invoices), whether it succeeds or fails, takes a natural key
\* out of the store.
C16_KeysNeverRemoved ==
    [][NaturalKeys(db) \subseteq NaturalKeys(db')]_vars

\* Reached: in a later invocation, after a fetch and a save have failed, a save
\* has been made under a key that already had a record.
C16_Witness ==
    /\ runs >= 2
    /\ faults["fetch"] > 0 /\ faults["save"] > 0
    /\ \E u \in wrote : \E d \in Records(u) : d.insertedAt = now
    /\ NaturalKeys(db) # {}

\* A record without the identifier the server generated for it
WithoutId(d) == [f \in DOMAIN d \ {"_id"} |-> d[f]]

\* The record(s) the save call c built
Built(c) ==
    CASE c.script = "invoices" -> {InvoiceDocument(c.date, c.data[1], c.at)}
      [] c.script = "branch" ->
            {BranchDocument(c.date, <<c.date[1], c.date[2], 1>>,
                            <<c.date[1], c.date[2], monthrange(c.date[1], c.date[2])>>,
                            c.data, c.at)}
      [] c.script = "salesman" ->
            {salesman_copy(c.data[k], sum_of(c.data, "net"), c.date, c.at) :
                k \in 1..Len(c.data)}
      [] OTHER -> {Document(c.script, c.data, c.endpoint, c.date, c.at)}

\* The records the store holds, after the call c, under the natural key of a
\* record the call built: the records of the key that carry the call's time
HeldFor(c, built) ==
    IF c.script = "salesman"
    THEN {d \in db[c.collection] :
             d.month = built.month /\ d.salesmanId = built.salesmanId
             /\ d.insertedAt = c.at}
    ELSE IF c.script \in {"invoices", "branch"}
    THEN {d \in db[c.collection] : d.month = built.month}
    ELSE {d \in db[c.collection] : d._id = built._id}

\* C17: after a successful save by a balance-sheet writer or an invoice writer
\* (monthly, by branch, by salesman), the record under the natural key is the
\* newly built record, field for field: apart from the identifier the server
\* gave an invoice record, it has no other field and no other value.
C17_SaveReplacesWholeRecord ==
    saves # <<>> =>
        LET c == saves[Len(saves)]
        IN  \A built \in Built(c) :
               \A d \in HeldFor(c, built) :
                   IF c.script \in {"invoices", "branch", "salesman"}
                   THEN WithoutId(d) = built
                   ELSE d = built

\* Nothing of the run has queried the store, fetched a report or saved one
NothingDoneYet ==
    /\ \A u \in Units : fetched[u] = 0
    /\ fetchok = {} /\ wrote = {}
    /\ missing_dates = <<>> /\ missing_months = <<>> /\ dates_to_process = <<>>
    /\ existing_months = <<>> /\ months_to_fetch = <<>>

\* C18: in every script, a start-up step that fails (a required variable
\* absent, the authentication rejected, the store not reached) ends the run with
\* exit code 1, leaving the store as it was, before any completeness query, any
\* fetch and any save of the run; and a step that fetches a report is taken with
\* a credential that an authentication of the run returned.
C18_StartUpFailureIsFatal ==
    [][/\ (pc \in {"validate", "auth", "connect"} /\ faults'["start"] > faults["start"])
          => /\ pc' = "done" /\ exit_code' = 1
             /\ db' = db
             /\ NothingDoneYet /\ NothingDoneYet'
       /\ pc \in {"validate", "auth", "connect"} => NothingDoneYet
       /\ (\E u \in Units : fetched'[u] > fetched[u]) => token # None]_vars

\* Reached: a later run that ended at the store connection, authenticated,
\* with the store holding what an earlier run saved.
C18_Witness ==
    /\ pc = "done" /\ exit_code = 1
    /\ token # None
    /\ faults["start"] > 0
    /\ NothingDoneYet
    /\ runs >= 2
    /\ KeysOf(db) # {}

\* What process_date does after a failed attempt on the current unit: below the
\* ceiling one backoff sleep and the next attempt, which fetches; at the
\* ceiling the next endpoint, with no sleep; in both cases the run goes on.
FailedAttemptHandled ==
    /\ IF attempt < max_retries(script)
       THEN /\ attempt' = attempt + 1
            /\ backoffs' = backoffs + 1
            /\ pc' = "fetch" /\ ep' = ep
       ELSE /\ backoffs' = backoffs
            /\ pc' = "endpoint" /\ ep' = ep + 1
            /\ CurrentId \notin wrote'
    /\ i' = i /\ dates_to_process' = dates_to_process
    /\ exit_code' = exit_code
    /\ db' = db
    /\ success_count' = success_count

\* C19: in process_date of the batch backfill, a step whose save fails is
\* handled as a step whose fetch fails: it uses up one attempt of the unit's
\* max_retries, is followed by one backoff sleep and by a new fetch while
\* attempts remain, and at the ceiling the unit is left without a record and
\* the run goes on with the next endpoint; fetch and save failures together
\* never give a unit more than max_retries fetch calls.
C19_FailedSaveLikeFailedFetch ==
    [][/\ (pc = "save" /\ success_count' = success_count) => FailedAttemptHandled
       /\ (pc = "fetch" /\ pc' # "save") => FailedAttemptHandled
       /\ pc \in {"fetch", "save"} => fetched'[CurrentId] <= max_retries(script)]_vars

\* Reached: a run that ended with exit code 0 after a unit was fetched
\* max_retries times, each fetch answered and each save refused, and left
\* without a record.
C19_Witness ==
    /\ pc = "done" /\ exit_code = 0
    /\ \E u \in DocIds :
          /\ fetched[u] = max_retries(script)
          /\ u \in fetchok
          /\ u \notin wrote
          /\ Records(u) = {}
    /\ backoffs >= max_retries(script) - 1

\* C20: a step in which the renewal of the credential fails is followed by a
\* backoff sleep and leaves the run in its outer loop, which goes on; and a run
\* that reaches the end of its outer loop with a failed renewal and no renewed
\* credential ends with a failure exit code.
C20_RenewalFailureRetriedThenFatal ==
    [][/\ renew_failed' > renew_failed
          => /\ backoffs' = backoffs + 1
             /\ pc' \in {"loop", "round"}
       /\ (pc # "done" /\ pc' = "done" /\ renew_failed > 0 /\ token = Some(1))
          => exit_code' # 0]_vars

\* A step in which authenticate() is called after the start-up: it returns a new
\* credential, or it fails and the renewal is counted as failed
AuthenticateCalled == token' # token \/ renew_failed' > renew_failed

\* The orchestrator's counter is at a renewal point: round n of the automatic
\* and the manual fetch with n > 1 and n mod 3 = 1, batch position i of a
\* backfill with i > 1 and i mod 5 = 1 (batch) or i mod 10 = 1 (month-per-run)
AtRenewalPoint ==
    \/ /\ script \in {"automatic", "manual"} /\ pc = "round"
       /\ attempt < max_retries(script) /\ ~all_completed
       /\ attempt + 1 > 1 /\ (attempt + 1) % 3 = 1
    \/ /\ script = "daily" /\ pc = "loop" /\ i <= Len(dates_to_process)
       /\ i > 1 /\ i % 5 = 1
    \/ /\ script = "monthly" /\ pc = "loop" /\ i <= Len(dates_to_process)
       /\ i > 1 /\ i % 10 = 1

\* C21: after the start-up of a run, a step calls authenticate() exactly when
\* the orchestrator's counter is at a renewal point; a step that fetches or
\* saves, whether it fails or not, never does.
C21_RenewalOnlyByCounter ==
    [][pc \notin {"idle", "done", "auth"} =>
          /\ AuthenticateCalled <=> AtRenewalPoint
          /\ pc \in {"fetch", "save", "r_fetch", "r_save"}
             => token' = token /\ renew_failed' = renew_failed]_vars

\* Reached: the month backfill renewed its credential at the eleventh date of
\* the month, after a fetch of the run had failed without a renewal.
C21_Witness ==
    /\ script = "monthly" /\ pc = "endpoint"
    /\ i = 11
    /\ token = Some(2)
    /\ faults["fetch"] > 0

\* The unit has a record in the store under its natural key
Persisted(u) ==
    IF u[2] = "byMonth"
    THEN \E d \in db["invoices_by_month"] : d.month = u[1]
    ELSE Records(u) # {}

\* The units the run was asked to load that have no record
StillMissing == {u \in Units : Selected(u) /\ ~Persisted(u)}

\* C22: a run of any sync script that went through its loop and ends with some
\* unit of its batch still without a record ends with exit code 0.
C22_IncompleteBatchExitsSuccess ==
    (RanToEnd /\ StillMissing # {}) => exit_code = 0

\* The run fetched for some missing unit and saved no unit at all
NoProgress == (\E u \in Units : fetched[u] > 0) /\ wrote = {}

\* C23: a run of the batch backfill that went through its batch ends with a
\* failure exit code when it had missing units to fetch and persisted none of
\* them, and with exit code 0 otherwise.
C23_NoProgressIsFailure ==
    (script = "daily" /\ RanToEnd)
    => IF NoProgress THEN exit_code # 0 ELSE exit_code = 0

\* C24: in every script, a step that calls the fetcher for a unit sends exactly
\* one request upstream for it and leaves the store as it was, so that the
\* requests sent for a unit are as many as the fetch calls made for it.
C24_OneRequestPerFetchCall ==
    [][\A u \in Units :
          fetched'[u] = fetched[u] + 1
          => /\ requests'[u] = requests[u] + 1
             /\ requests'[u] = fetched'[u]
             /\ db' = db]_vars

\* The run begins to fetch the unit: its first fetch call of the invocation
FirstFetch(u) == fetched[u] = 0 /\ fetched'[u] = 1

\* C25: in the batch backfill, and in the invoices fetcher run with
\* SKIP_EXISTING_MONTHS, when no store lookup has failed, a unit is first
\* fetched only if the store holds no record of it at that time, whoever wrote
\* to the store since the run computed its missing set.
C25_DecisionReflectsStore ==
    [][\A u \in Units :
          (/\ FirstFetch(u)
           /\ faults["lookup"] = 0
           /\ script = "invoices" => skip_existing)
          => ~Persisted(u)]_vars

\* C26: in every script, a step that calls the fetcher is the first fetch call
\* of the invocation or comes after a time.sleep made since the previous fetch
\* call: a backoff before a new attempt on the same unit, a pacing sleep
\* before the next report kind, the next date or the next month.
C26_SleepBetweenFetchCalls ==
    [][\A u \in Units : fetched'[u] = fetched[u] + 1 => rested]_vars

\* C27: every run of the batch backfill that has exited, whatever its outcome
\* (range complete, batch processed, start-up failure), has logged its closing
\* report before the exit.
C27_SummaryAlwaysEmitted ==
    (script = "daily" /\ pc = "done") => summary # None

\* The dates of the configured range that have some report kind without a record
IncompleteInRange ==
    {d \in Range(generate_date_range(BACKFILL_CONFIG.start_date,
                                     BACKFILL_CONFIG.end_date)) : Incomplete(d)}

\* C28: when a run of the batch backfill has logged its batch summary and
\* exited, the remaining count of the summary is the number of dates of the
\* range that are incomplete in the store, and the next date of the summary
\* is the oldest of them (none when there is none).
C28_SummaryCountsStillIncomplete ==
    (script = "daily" /\ pc = "done" /\ summary # None) =>
    LET report == CHOOSE r \in summary : TRUE
    IN  report.kind = "batch" =>
        /\ report.remaining = Cardinality(IncompleteInRange)
        /\ report.next = IF IncompleteInRange = {} THEN None
                         ELSE Some(CHOOSE d \in IncompleteInRange :
                                     \A m \in IncompleteInRange : DateLeq(d, m))

\* C29: every call of a fetcher that got a 200 response with a JSON array or
\* a single JSON object returned a list: the rows of the array in the order of
\* the body, or the one-element list that holds the object.
C29_PayloadAlwaysSequence ==
    \A k \in 1..Len(saves) :
        LET call == saves[k]
        IN  (/\ "fetcher" \in DOMAIN call
             /\ call.response.outcome = "response"
             /\ call.response.status_code = 200
             /\ call.response.body.json \in {"array", "object"})
            => call.returned = Some([type |-> "list", items |-> call.response.body.items])

\* The month of a date, and the order of the months
MonthOf(d) == <<d[1], d[2]>>
MonthLeq(a, b) == a[1] < b[1] \/ (a[1] = b[1] /\ a[2] <= b[2])

\* The months with a date of the configured range that is incomplete in the store
IncompleteMonths == {MonthOf(d) : d \in IncompleteInRange}

\* The dates of a month that lie inside the configured range
DatesInRangeOf(m) ==
    {d \in Range(generate_date_range(BACKFILL_CONFIG.start_date,
                                     BACKFILL_CONFIG.end_date)) : MonthOf(d) = m}

\* C30: in a run of the month-per-run backfill, the dates selected after the
\* completeness query are the dates inside [start_date, end_date] of the
\* earliest month that has an incomplete date in the store, in ascending
\* order; the selection and the order of processing do not change during the
\* run; and every fetch call is for the date at the current position of the
\* selection, so no date of another month is fetched.
C30_OnlyEarliestIncompleteMonth ==
    [][script = "monthly" =>
         /\ (pc = "query" /\ pc' = "loop") =>
               /\ IncompleteMonths # {}
               /\ LET target == CHOOSE m \in IncompleteMonths :
                                    \A o \in IncompleteMonths : MonthLeq(m, o)
                  IN  Range(dates_to_process') = DatesInRangeOf(target)
               /\ \A j \in 1..Len(dates_to_process'), k \in 1..Len(dates_to_process') :
                     j < k => Older(dates_to_process'[j], dates_to_process'[k])
         /\ (InBatch /\ pc' # "done") =>
               dates_to_process' = dates_to_process /\ i' >= i
         /\ \A u \in Units :
               fetched'[u] = fetched[u] + 1 =>
                  InBatch /\ i \in 1..Len(dates_to_process) /\ u[1] = dates_to_process[i]]_vars

\* C31: the list get_missing_months returns to a run of the month backfill
\* holds exactly the months with a date inside [start_date, end_date] that
\* lacks the record of some report kind in the store, each once, in
\* ascending order; a month whose dates inside the range are all complete is
\* not listed, whatever its dates outside the range.
C31_MissingMonthsExact ==
    [][(script = "monthly" /\ pc = "query" /\ pc' # "query") =>
          /\ Range(missing_months') = IncompleteMonths
          /\ \A j \in 1..Len(missing_months'), k \in 1..Len(missing_months') :
                j < k => /\ MonthLeq(missing_months'[j], missing_months'[k])
                         /\ missing_months'[j] # missing_months'[k]]_vars

\* C32: whatever runs of the invoices-by-salesman fetcher wrote, one after
\* the other or two at the same time, the collection holds at most one
\* record for a month and a salesmanId.
C32_OneRecordPerSalesman ==
    \A a \in db["invoices_by_salesman"], b \in db["invoices_by_salesman"] :
        (a.month = b.month /\ a.salesmanId = b.salesmanId) => a = b

\* C33: during a run of the automatic or the manual fetch, a completed flag
\* that is true stays true; a fetch call or a write to the store is made only
\* for an endpoint whose flag is false; and once every flag is true the run
\* starts no further round, fetches, writes and sleeps no more, and goes to
\* its exit.
C33_CompletedIsFinal ==
    [][(script \in {"automatic", "manual"} /\ runs' = runs /\ DOMAIN completed # {}) =>
          /\ DOMAIN completed' = DOMAIN completed
          /\ \A n \in DOMAIN completed : completed[n] => completed'[n]
          /\ \A u \in Units :
                fetched'[u] # fetched[u] => u[2] \in DOMAIN completed /\ ~completed[u[2]]
          /\ db' # db => pc = "r_save" /\ ~completed[selected_endpoints[ep].name]
          /\ all_completed =>
                /\ attempt' = attempt /\ fetched' = fetched /\ db' = db
                /\ backoffs' = backoffs
                /\ pc' \in {"r_endpoint", "round", "done"}]_vars

\* Reached: a later round of a run in which one endpoint is completed and is
\* passed over, and another one is being fetched again.
C33_Witness ==
    /\ script \in {"automatic", "manual"}
    /\ pc = "r_fetch" /\ attempt >= 2 /\ ep >= 2
    /\ \E k \in 1..(ep - 1) : completed[selected_endpoints[k].name]

\* C34: in a run of the automatic fetch the retry loop makes at most
\* max_retries rounds; each endpoint has at most one fetch call per round
\* whose token renewal did not fail, hence at most max_retries and none in a
\* round whose renewal failed; a run that went through the loop exits 0
\* exactly when every endpoint is completed; and every run that has started
\* reaches its exit.
C34_AutomaticLoopTerminates ==
    /\ [](script = "automatic" =>
            /\ attempt <= max_retries(script)
            /\ \A u \in Units : fetched[u] <= attempt - renew_failed)
    /\ []((script = "automatic" /\ RanToEnd) => (exit_code = 0 <=> all_completed))
    /\ ((script = "automatic" /\ pc # "done") ~> (pc = "done"))

\* Reached: a run of the automatic fetch that went through all its rounds, one
\* of them consumed by a failed token renewal, and exited 1 with an endpoint
\* not completed.
C34_Witness ==
    /\ script = "automatic" /\ pc = "done"
    /\ attempt = max_retries(script)
    /\ renew_failed > 0
    /\ ~all_completed /\ exit_code = 1
    /\ \E u \in Units : fetched[u] = attempt - renew_failed

\* A step in which authenticate() was called and returned False
C35_FailedLogin ==
    runs' = runs /\ (renew_failed' > renew_failed \/ (pc = "auth" /\ pc' = "done"))

\* A step that issues a balance-sheet request
C35_Fetching == runs' = runs /\ \E u \in Units : fetched'[u] > fetched[u]

C36_SkippedDateStaysMissing ==
    /\ [][(script = "daily" /\ renew_failed' > renew_failed) =>
             /\ i' = i + 1
             /\ skipped' = skipped \cup {dates_to_process[i]}
             /\ fetched' = fetched /\ requests' = requests /\ db' = db
             /\ processed' = processed
             /\ successful' = successful /\ failed' = failed]_vars
    /\ []((script = "daily" /\ RanToEnd) =>
             /\ processed = successful + failed
             /\ processed <= Len(dates_to_process)
             /\ \A d \in skipped : Incomplete(d))

\* C36 without the lookup failures of C3
C36_WithoutLookupFaults ==
    (script = "daily" /\ RanToEnd /\ faults["lookup"] = 0) =>
        /\ processed = successful + failed
        /\ processed + renew_failed = Len(dates_to_process)
        /\ \A d \in skipped : Incomplete(d)

\* The report kind a save_data call wrote to the collection of
C37_Kind(c) == CHOOSE e \in Range(ENDPOINTS) : e.collection = c.collection

\* The completeness check of the backfills and the generator find the record
\* of the call when they are asked for the day given as date_str
C37_Found(c, date_str) ==
    /\ C37_Kind(c).name \notin Range(check_date_exists(db, date_str, TRUE)[2])
    /\ c.collection = "balance_8columns" => get_8columns_data(db, date_str) # None

C38_MigrationRun == script = "migrate" /\ pc = "validate" /\ pc' = "done"

\* Every document of the first store is in the second, with every field it
\* had unchanged and at most loadSource = "automatic" added to one that
\* lacked it, and the second store has no other document
C38_OnlyStamps(before, after) ==
    \A c \in DOMAIN before :
        /\ Cardinality(after[c]) = Cardinality(before[c])
        /\ \A d \in before[c] :
             \E e \in after[c] :
                /\ \A f \in DOMAIN d : e[f] = d[f]
                /\ DOMAIN e \subseteq DOMAIN d \cup {"loadSource"}
                /\ (query(d) /\ ~query(e)) => e.loadSource = "automatic"

\* C38: a run of the loadSource migration adds loadSource = "automatic" to
\* documents that lack the field and changes nothing else: no existing
\* loadSource, no other field, no other document; a run that exits 0 leaves no
\* document of its collections without the field; and the second run right
\* after a first one that succeeded modifies no document.
C38_MigrationNarrowAndIdempotent ==
    [][C38_MigrationRun =>
          /\ C38_OnlyStamps(db, db')
          /\ exit_code' = 0 =>
                /\ \A k \in 1..Len(MIGRATE_COLLECTIONS) :
                      \A d \in db'[MIGRATE_COLLECTIONS[k]] : ~query(d)
                /\ db' # db <=> summary' # Some([total_updated |-> 0])
          /\ (runs = 2 /\ FaultCount = 0) => db' = db]_vars

\* Reached: a first run that stamped one document, beside a manual document
\* of the same collection and an unstamped document of another collection.
C38_Witness ==
    /\ script = "migrate" /\ pc = "done" /\ exit_code = 0 /\ runs = 1
    /\ summary = Some([total_updated |-> 1])
    /\ \E d \in db["balance_8columns"] : d.loadSource = "manual"
    /\ \E d \in db["balance_8columns"] : d.loadSource = "automatic"
    /\ \E d \in db["balance_totals"] : query(d)

\* Reached: the second run right after it, which found nothing to update.
C38_SecondRun ==
    /\ script = "migrate" /\ pc = "done" /\ exit_code = 0 /\ runs = 2
    /\ FaultCount = 0
    /\ summary = Some([total_updated |-> 0])
    /\ \E d \in db["balance_8columns"] : d.loadSource = "manual"

====
